---- MODULE Spec2Model ----
\* A model of the blackbox-server control plane (blackbox-server/src): the
\* deployment coordinator (hf_deploy.cpp, deploy_service.cpp), the model
\* registry and the health loop (model_manager.cpp), the reconciliation
\* handler (optimization_service.cpp), the spindown handler
\* (spindown_service.cpp) and the sequential accept loop that runs them
\* (infra/http_server.cpp).
\*
\* Specifications: Spec, the lifecycle (requests served one at a time by
\* the accept loop, health ticks and the container runtime in between);
\* SpecPort, getNextAvailablePort alone, one loop test per step; SpecThreads,
\* the accept-loop thread and the health thread entering and leaving their
\* calls into model_metrics; SpecHealth, the loop of the health thread with
\* the ways a tick can end; SpecMark, POST /optimize over records fed with
\* rings of samples; SpecConfig, deploys over the config files; SpecValidate,
\* validateHFModel one remote request per step; SpecRing, the ring of one
\* record filled past its capacity; SpecCollect, GET /vram/aggregated with
\* its window and sampling loop (aggregation_service.cpp); SpecSnapshot, the
\* per-model figures of getDetailedVRAMUsage (nvml_utils.cpp); SpecStats,
\* calculateStats and calculatePercentile in rounded binary arithmetic;
\* SpecName, getContainerName over model ids; SpecStream, the handler of
\* GET /vram/stream under the exceptions its probes and writes throw;
\* SpecOptimize, POST /optimize round by round with the samples a stream
\* records in between; SpecSpindown, POST /spindown over model ids that
\* begin with the container prefix; SpecEnv, the first getEnvValue calls of
\* the accept loop and the health thread (utils/env_utils.cpp).
\*
\* Strings are sequences of one-character strings, so that the derivation of
\* a container name and the name filters of the container CLI are computed
\* character by character.  Fractions of GPU memory are kept in percent
\* (0.95 is 95).
EXTENDS Integers, Sequences, FiniteSets, TLC

\* ------------------------------------------------------------------ bounds
\* The deepest nesting of validateHFModel calls the validation specification
\* follows; the code has no limit of its own.
MaxValidateDepth == 3
\* The most iterations the stream specification follows one /vram/stream
\* handler through; the loop of the code has no limit of its own.
MaxStreamIterations == 3
\* The most samples the ring specification records into one record.  It must
\* pass the 100 samples a ring holds.
MaxRecorded == 105
\* The longest ring the lifecycle specification lets a record grow to.  It
\* must reach the 10 samples optimizeModelAllocations asks for.
MaxRingLen == 10

\* ------------------------------------------------------- program constants
DEFAULT_MAX_MODELS == 3
DEFAULT_START_PORT == 8000
PORT_SCAN_RANGE == 1000
MAX_SAMPLES == 100
MIN_OPT_SAMPLES == 10
DEFAULT_GPU_UTIL == 95
OPTIMIZE_PORT == 8000
MIN_BUDGET == 10
MAX_BUDGET == 95
HTTP_OK == 200
HTTP_BAD_REQUEST == 400
HTTP_INTERNAL_ERROR == 500

\* ----------------------------------------------------------------- strings
Alnum ==
    { "a", "b", "c", "d", "e", "f", "g", "h", "i", "j", "k", "l", "m",
      "n", "o", "p", "q", "r", "s", "t", "u", "v", "w", "x", "y", "z",
      "A", "B", "C", "D", "E", "F", "G", "H", "I", "J", "K", "L", "M",
      "N", "O", "P", "Q", "R", "S", "T", "U", "V", "W", "X", "Y", "Z",
      "0", "1", "2", "3", "4", "5", "6", "7", "8", "9" }

\* The characters handleDeployRequest trims: " \t\n\r\f\v".
Whitespace == { " ", "\t", "\n", "\r", "\f", "VT" }

VllmPrefix == << "v", "l", "l", "m", "-" >>

\* std::string::find(x) == 0
StartsWith(s, x) ==
    /\ Len(s) >= Len(x)
    /\ SubSeq(s, 1, Len(x)) = x

\* std::string::find(x) != npos; also the CLI's --filter name=x
Contains(s, x) ==
    \E i \in 1..(Len(s) - Len(x) + 1) : SubSeq(s, i, i + Len(x) - 1) = x

\* model_id.erase(0, find_first_not_of(ws)); model_id.erase(find_last_not_of(ws) + 1)
trimWhitespace(s) ==
    LET keep == { i \in 1..Len(s) : s[i] \notin Whitespace }
    IN  IF keep = {} THEN << >>
        ELSE LET first == CHOOSE i \in keep : \A j \in keep : i <= j
                 last  == CHOOSE i \in keep : \A j \in keep : j <= i
             IN  SubSeq(s, first, last)

\* "vllm-" + regex_replace(model_id, "[^a-zA-Z0-9]", "-")
\* A variant of getContainerName that replaces no character.
getContainerNameAsIs(model_id) == VllmPrefix \o model_id

getContainerName(model_id) ==
    VllmPrefix \o [ i \in 1..Len(model_id) |->
                      IF model_id[i] \in Alnum THEN model_id[i] ELSE "-" ]

\* name.substr(5)
NameToModelId(name) == SubSeq(name, 6, Len(name))

\* ------------------------------------------------------------ the universe
\* The model ids the remote registry knows (canonical ids).
CanonicalIds == { << "a" >>, << "a", "/", "b" >> }
\* What a deploy request may carry as model_id.
RequestIds == { << " ", "\t" >>, << " ", "a" >>, << "a", "/", "b" >> }
ContainerNames == { getContainerName(m) : m \in CanonicalIds }
\* Every id deployHFModel can be called with: a trimmed request id, or the
\* id the optimizer reads back from a container name.
DeployIds ==
    { trimWhitespace(m) : m \in RequestIds } \cup { NameToModelId(n) : n \in ContainerNames }
\* The port a deploy request may carry: none (0), START_PORT or the one after.
RequestPorts == { 0, DEFAULT_START_PORT, DEFAULT_START_PORT + 1 }
\* The percentages the GPU probe reports for a process.
SampleValues == { 30 }
\* gpu-memory-utilization values found in the config files, in percent.
ConfigBudgets == { DEFAULT_GPU_UTIL }
\* A config file with its gpu-memory-utilization key, and the file that is
\* not there.
ConfigFile(gpu_memory_utilization) ==
    [ present |-> TRUE, gpu_memory_utilization |-> gpu_memory_utilization ]
NoConfigFile == [ present |-> FALSE, gpu_memory_utilization |-> 0 ]

\* ------------------------------------------------------------------- state
VARIABLES
    env,            \* the environment file: MAX_CONCURRENT_MODELS, HF_TOKEN
    config,         \* the config file getConfigPathForGPU picks
    containers,     \* the container runtime: name -> [state, port]
    psOrder,        \* the existing containers, newest first (the order of ps)
    model_metrics,  \* the registry: container name -> ModelMetrics
    pc,             \* where the accept-loop thread is
    to_restart,     \* handleOptimizeRequest: marked containers still to do
    restarted,      \* handleOptimizeRequest: the restarted list so far
    resp,           \* the response the handler is about to write
    portQuery,      \* port selection alone: preferred port, used ports, START_PORT
    portScan,       \* port selection alone: where getNextAvailablePort is
    inRegistry,     \* thread -> the model_metrics call the thread is inside
    health,         \* the health thread: where it is, how its last tick ended
    validate,       \* validateHFModel alone: the query, the depth, the result
    inserted,       \* the ring alone: the samples ever pushed into a record
    recorded,       \* the ring alone: the samples recorded since the registration, in order
    aggregation,    \* GET /vram/aggregated: the query, the window, the clock, the samples
    snapshot,       \* getDetailedVRAMUsage alone: what the probes report, the result
    stream,         \* GET /vram/stream alone: where the handler and the accept loop are
    deploy_res,     \* handleOptimizeRequest: the DeployResponse of the latest re-deploy
    rounds,         \* the rounds of the latest optimize request: container name, outcome
    sinceRestart,   \* container name -> samples recorded since an optimize restarted it
    env_loaded,     \* env_utils.cpp: static bool env_loaded
    env_cache,      \* env_utils.cpp: static map env_cache, with how often it was assigned
    inGetEnv        \* thread -> where the thread is inside getEnvValue

\* The variables of the telemetry endpoints.
telemetryVars == << recorded, aggregation, snapshot, stream >>

\* The local of the optimize loop and the history of its rounds.
optimizeVars == << deploy_res, rounds, sinceRestart >>
\* The statics of env_utils.cpp and the threads inside getEnvValue.
envCacheVars == << env_loaded, env_cache, inGetEnv >>

vars == << env, config, containers, psOrder, model_metrics, pc, to_restart, restarted, resp,
            portQuery, portScan, inRegistry, health, validate, inserted, telemetryVars,
            optimizeVars, envCacheVars >>

\* The variables of the lifecycle, and those its steps leave alone.
lifecycleVars == << env, config, containers, psOrder, model_metrics, pc, to_restart, restarted, resp, optimizeVars, envCacheVars >>
sideVarsButOptimize == << config, portQuery, portScan, inRegistry, health, validate, inserted, telemetryVars, envCacheVars >>
sideVars == << sideVarsButOptimize, optimizeVars >>
lifecycleVarsButRegistry == << env, config, containers, psOrder, pc, to_restart, restarted, resp, optimizeVars, envCacheVars >>
\* The variables of the specifications that run one function alone.
aloneVars == << health, validate, inserted, telemetryVars >>

NoContainer == [ state |-> "absent", port |-> 0 ]
NoResp == [ kind |-> "none" ]

\* ------------------------------------------------------ decimal conversion
DigitChars == << "0", "1", "2", "3", "4", "5", "6", "7", "8", "9" >>

RECURSIVE to_string(_)
\* std::to_string / operator<< of a non-negative int
to_string(n) ==
    IF n < 10 THEN << DigitChars[n + 1] >>
    ELSE to_string(n \div 10) \o << DigitChars[(n % 10) + 1] >>

DigitValue(c) == CHOOSE d \in 0..9 : DigitChars[d + 1] = c

RECURSIVE stoiFrom(_, _, _)
stoiFrom(s, i, acc) ==
    IF i > Len(s) \/ s[i] \notin { DigitChars[k] : k \in 1..10 } THEN acc
    ELSE stoiFrom(s, i + 1, acc * 10 + DigitValue(s[i]))

\* std::stoi on an unsigned decimal prefix; -1 stands for the exception stoi
\* throws when the text does not begin with a digit.
stoi(s) ==
    IF Len(s) = 0 \/ s[1] \notin { DigitChars[k] : k \in 1..10 } THEN -1
    ELSE stoiFrom(s, 1, 0)

\* ------------------------------------------------------- container runtime
\* The {{.Ports}} column of a container started with -p 0.0.0.0:<port>:8000.
PortsField(port) ==
    << "0", ".", "0", ".", "0", ".", "0", ":" >> \o to_string(port)
        \o << "-", ">", "8", "0", "0", "0", "/", "t", "c", "p" >>

\* First index at which x occurs in s, 0 when it does not (std::string::find).
Find(s, x) ==
    LET hits == { i \in 1..(Len(s) - Len(x) + 1) : SubSeq(s, i, i + Len(x) - 1) = x }
    IN  IF hits = {} THEN 0 ELSE CHOOSE i \in hits : \A j \in hits : i <= j

\* Last index <= before at which the character c occurs, 0 when none (rfind).
RFindChar(s, c, before) ==
    LET hits == { i \in 1..before : i <= Len(s) /\ s[i] = c }
    IN  IF hits = {} THEN 0 ELSE CHOOSE i \in hits : \A j \in hits : j <= i

\* A variant of ParseHostPort that reads the number after "->", the port
\* inside the container.
ParseContainerPort(ports) ==
    LET arrow_pos == Find(ports, << "-", ">" >>)
        parsed    == IF arrow_pos = 0 THEN -1
                     ELSE stoi(SubSeq(ports, arrow_pos + 2, Len(ports)))
    IN  IF parsed < 0 THEN DEFAULT_START_PORT ELSE parsed

\* listDeployedModels: the host port read from the Ports column; 8000 when
\* the column has no "host:port->" part or the number does not parse.
ParseHostPort(ports) ==
    LET arrow_pos == Find(ports, << "-", ">" >>)
        colon_pos == IF arrow_pos = 0 THEN 0 ELSE RFindChar(ports, ":", arrow_pos)
        parsed    == IF colon_pos = 0 THEN -1
                     ELSE stoi(SubSeq(ports, colon_pos + 1, arrow_pos - 1))
    IN  IF parsed < 0 THEN DEFAULT_START_PORT ELSE parsed

IsRunning(cs, n) == cs[n].state = "running"
Exists(cs, n) == cs[n].state # "absent"

\* --filter name=<x>: the names that contain x.
NameFilter == [ x \in ContainerNames |-> { n \in ContainerNames : Contains(n, x) } ]

\* docker ps -a --filter name=<x> --format {{.ID}}: the existing containers
\* whose name contains x, newest first.  A container is identified by its name.
PsAllByName(cs, order, x) ==
    SelectSeq(order, LAMBDA n : Exists(cs, n) /\ n \in NameFilter[x])

\* docker ps: the running containers, newest first.
PsRunning(cs, order) == SelectSeq(order, LAMBDA n : IsRunning(cs, n))

\* docker stop <n>: exit status 0 iff the container exists.
StopOk(cs, n) == n \in DOMAIN cs /\ Exists(cs, n)
AfterStop(cs, n) ==
    IF StopOk(cs, n) /\ IsRunning(cs, n)
    THEN [ cs EXCEPT ![n].state = "exited" ] ELSE cs

\* docker rm <n>: exit status 0 iff the container exists and is not running.
RmOk(cs, n) == n \in DOMAIN cs /\ Exists(cs, n) /\ ~IsRunning(cs, n)
AfterRm(cs, n) == IF RmOk(cs, n) THEN [ cs EXCEPT ![n] = NoContainer ] ELSE cs
OrderAfterRm(cs, order, n) ==
    IF RmOk(cs, n) THEN SelectSeq(order, LAMBDA m : m # n) ELSE order

\* The host port is bound by a running container: the runtime cannot start a
\* second container that publishes it.
PortBound(cs, port) == \E n \in DOMAIN cs : IsRunning(cs, n) /\ cs[n].port = port

\* The host ports a container of the model can publish: a requested port, the
\* port of the optimizer, or one the scan from START_PORT reaches.
HostPorts == DEFAULT_START_PORT .. (DEFAULT_START_PORT + Cardinality(ContainerNames))

\* The conversions above, tabulated over the values the model meets.
HostPortRead == [ p \in HostPorts |-> ParseHostPort(PortsField(p)) ]
PortsFieldHas ==
    [ p \in HostPorts |-> [ q \in HostPorts |->
        Contains(PortsField(p), << ":" >> \o to_string(q)) ] ]
ListedNames ==
    { n \in ContainerNames : Contains(n, VllmPrefix) /\ StartsWith(n, VllmPrefix) }
ModelIdOfName == [ n \in ContainerNames |-> NameToModelId(n) ]
ContainerNameOf == [ m \in CanonicalIds |-> getContainerName(m) ]
Trimmed == [ m \in RequestIds |-> trimWhitespace(m) ]

\* --------------------------------------------------- services/model_manager
\* getEnvValue(key, default_val): the value of the key, default_val when the
\* key is not set.  An unset key is held as the empty string.
getEnvValue(e, key, default_val) == IF Len(e[key]) = 0 THEN default_val ELSE e[key]

\* getMaxConcurrentModels: MAX_CONCURRENT_MODELS (default "3") when stoi reads
\* a positive number from it, 3 otherwise.
getMaxConcurrentModels(e) ==
    LET max == stoi(getEnvValue(e, "MAX_CONCURRENT_MODELS", to_string(DEFAULT_MAX_MODELS)))
    IN  IF max > 0 THEN max ELSE DEFAULT_MAX_MODELS

\* One entry of listDeployedModels for the running container n.  pid,
\* gpu_type and the usage fields are not set by listDeployedModels.
DeployedModel(cs, n) ==
    [ model_id       |-> ModelIdOfName[n],
      container_id   |-> n,
      container_name |-> n,
      port           |-> HostPortRead[cs[n].port],
      running        |-> TRUE ]

\* listDeployedModels: ps --filter name=vllm- --filter status=running, kept
\* when the name begins with vllm- and inspect reports Running.
listDeployedModels(cs, order) ==
    LET lines == SelectSeq(order, LAMBDA n : IsRunning(cs, n) /\ n \in ListedNames)
    IN  [ i \in 1..Len(lines) |-> DeployedModel(cs, lines[i]) ]

getDeployedModelCount(cs, order) == Len(listDeployedModels(cs, order))

\* getNextAvailablePort: int start_port = 8000; START_PORT replaces it when
\* the key is set and stoi reads it.
startPort(start_port_env) ==
    LET parsed == stoi(start_port_env)
    IN  IF Len(start_port_env) = 0 \/ parsed < 0 THEN DEFAULT_START_PORT ELSE parsed

\* getNextAvailablePort before its loop: the preferred port is returned when
\* it is > 0 and not used; otherwise the loop starts at start_port.
scanStart(preferred_port, used_ports, start_port) ==
    IF preferred_port > 0 /\ preferred_port \notin used_ports
    THEN [ returned |-> TRUE, port |-> preferred_port ]
    ELSE [ returned |-> FALSE, port |-> start_port ]

\* A variant of scanStep whose loop runs while port <= max_port.
scanStepPastRange(port, max_port, used_ports, start_port) ==
    IF port > max_port THEN [ returned |-> TRUE, port |-> start_port ]
    ELSE IF port \notin used_ports THEN [ returned |-> TRUE, port |-> port ]
    ELSE [ returned |-> FALSE, port |-> port + 1 ]

\* One test of  while (port < max_port) { if unused return port; port++ }
\* and, when the test fails, the  return start_port  after the loop.
scanStep(port, max_port, used_ports, start_port) ==
    IF port >= max_port THEN [ returned |-> TRUE, port |-> start_port ]
    ELSE IF port \notin used_ports THEN [ returned |-> TRUE, port |-> port ]
    ELSE [ returned |-> FALSE, port |-> port + 1 ]

RECURSIVE scanPorts(_, _, _)
\* The loop run to its return.
scanPorts(scan, used_ports, start_port) ==
    IF scan.returned THEN scan.port
    ELSE scanPorts(scanStep(scan.port, start_port + PORT_SCAN_RANGE, used_ports, start_port),
                   used_ports, start_port)

\* The body of getNextAvailablePort once the used ports are collected.
nextAvailablePort(preferred_port, used_ports, start_port_env) ==
    LET start_port == startPort(start_port_env)
    IN  scanPorts(scanStart(preferred_port, used_ports, start_port), used_ports, start_port)

getNextAvailablePort(preferred_port, cs, order, e) ==
    LET models == listDeployedModels(cs, order)
        used_ports == { models[i].port : i \in 1..Len(models) }
    IN  nextAvailablePort(preferred_port, used_ports, getEnvValue(e, "START_PORT", << >>))

\* A variant of canDeployModel that admits while count <= max.
canDeployModelInclusive(cs, order, e) ==
    getDeployedModelCount(cs, order) <= getMaxConcurrentModels(e)

\* canDeployModel: getDeployedModelCount() < getMaxConcurrentModels()
canDeployModel(cs, order, e) ==
    getDeployedModelCount(cs, order) < getMaxConcurrentModels(e)

\* registerModelDeployment: model_metrics[container_name] = a fresh record.
\* A variant of registerModelDeployment that leaves an existing record as it
\* is, as std::map::insert does.
registerModelDeploymentKeeps(mm, container_name, configured_max_gpu_utilization) ==
    [ n \in (DOMAIN mm) \cup { container_name } |->
        IF n \in DOMAIN mm THEN mm[n]
        ELSE [ vram_samples |-> << >>,
               peak_usage |-> 0,
               configured_max_utilization |-> configured_max_gpu_utilization ] ]

registerModelDeployment(mm, container_name, configured_max_gpu_utilization) ==
    [ n \in (DOMAIN mm) \cup { container_name } |->
        IF n = container_name
        THEN [ vram_samples |-> << >>,
               peak_usage |-> 0,
               configured_max_utilization |-> configured_max_gpu_utilization ]
        ELSE mm[n] ]

\* A variant of unregisterModel that erases nothing.
unregisterModelKeeps(mm, container_name) == mm

\* unregisterModel: model_metrics.erase(container_name)
unregisterModel(mm, container_name) ==
    [ n \in (DOMAIN mm) \ { container_name } |-> mm[n] ]

\* A variant of runningContainerNames that lists every container that
\* exists, as ps -a does.
existingContainerNames(cs, order) ==
    { n \in ListedNames : Exists(cs, n) }

\* cleanupStaleModelMetrics, first half: the names of listDeployedModels().
runningContainerNames(cs, order) ==
    LET running_models == listDeployedModels(cs, order)
    IN  { running_models[i].container_name : i \in 1..Len(running_models) }

\* A variant of eraseStale that erases no record.
eraseNoRecord(mm, running_container_names) == mm

\* A variant of eraseStale that erases every record.
eraseEveryRecord(mm, running_container_names) == << >>

\* cleanupStaleModelMetrics, second half: the loop that erases every record
\* whose name is not among running_container_names.
eraseStale(mm, running_container_names) ==
    [ n \in (DOMAIN mm) \cap running_container_names |-> mm[n] ]

cleanupStaleModelMetrics(mm, cs, order) ==
    eraseStale(mm, runningContainerNames(cs, order))

\* A variant of recordSample that drops the newest sample of a full ring.
recordSampleDropsNewest(mm, container_name, vram_percent) ==
    IF container_name \notin DOMAIN mm THEN mm
    ELSE LET metrics == mm[container_name]
             pushed  == Append(metrics.vram_samples, vram_percent)
             ring    == IF Len(pushed) > MAX_SAMPLES THEN SubSeq(pushed, 1, MAX_SAMPLES) ELSE pushed
             peak    == IF vram_percent > metrics.peak_usage
                        THEN vram_percent ELSE metrics.peak_usage
         IN  [ mm EXCEPT ![container_name] =
                 [ metrics EXCEPT !.vram_samples = ring, !.peak_usage = peak ] ]

\* A variant of recordSample that creates the record of an unknown name, as
\* model_metrics[container_name] would.
recordSampleCreates(mm, container_name, vram_percent) ==
    LET known   == IF container_name \in DOMAIN mm THEN mm[container_name]
                   ELSE [ vram_samples |-> << >>, peak_usage |-> 0,
                          configured_max_utilization |-> 0 ]
        pushed  == Append(known.vram_samples, vram_percent)
        ring    == IF Len(pushed) > MAX_SAMPLES THEN Tail(pushed) ELSE pushed
        peak    == IF vram_percent > known.peak_usage THEN vram_percent ELSE known.peak_usage
    IN  [ n \in (DOMAIN mm) \cup { container_name } |->
            IF n = container_name
            THEN [ known EXCEPT !.vram_samples = ring, !.peak_usage = peak ]
            ELSE mm[n] ]

\* A variant of recordSample whose peak is the largest sample of the ring as
\* it is after the push and the pop.
recordSamplePeakOfRing(mm, container_name, vram_percent) ==
    IF container_name \notin DOMAIN mm THEN mm
    ELSE LET metrics == mm[container_name]
             pushed  == Append(metrics.vram_samples, vram_percent)
             ring    == IF Len(pushed) > MAX_SAMPLES THEN Tail(pushed) ELSE pushed
             peak    == CHOOSE v \in { ring[i] : i \in 1..Len(ring) } :
                            \A i \in 1..Len(ring) : ring[i] <= v
         IN  [ mm EXCEPT ![container_name] =
                 [ metrics EXCEPT !.vram_samples = ring, !.peak_usage = peak ] ]

\* updateModelVRAMUsage after its cleanup: nothing for an unknown name, else
\* push_back, pop_front beyond MAX_SAMPLES, and the peak.
recordSample(mm, container_name, vram_percent) ==
    IF container_name \notin DOMAIN mm THEN mm
    ELSE LET metrics == mm[container_name]
             pushed  == Append(metrics.vram_samples, vram_percent)
             ring    == IF Len(pushed) > MAX_SAMPLES THEN Tail(pushed) ELSE pushed
             peak    == IF vram_percent > metrics.peak_usage
                        THEN vram_percent ELSE metrics.peak_usage
         IN  [ mm EXCEPT ![container_name] =
                 [ metrics EXCEPT !.vram_samples = ring, !.peak_usage = peak ] ]

updateModelVRAMUsage(mm, cs, order, container_name, vram_percent) ==
    recordSample(cleanupStaleModelMetrics(mm, cs, order), container_name, vram_percent)

\* The order of std::string::compare on the characters in use (ASCII).
AsciiOrder ==
    << "\t", "\n", "VT", "\f", "\r", " ", "-", ".", "/",
       "0", "1", "2", "3", "4", "5", "6", "7", "8", "9", ":", ">",
       "A", "B", "C", "D", "E", "F", "G", "H", "I", "J", "K", "L", "M",
       "N", "O", "P", "Q", "R", "S", "T", "U", "V", "W", "X", "Y", "Z",
       "a", "b", "c", "d", "e", "f", "g", "h", "i", "j", "k", "l", "m",
       "n", "o", "p", "q", "r", "s", "t", "u", "v", "w", "x", "y", "z", "|" >>

CharCode(c) == CHOOSE k \in 1..Len(AsciiOrder) : AsciiOrder[k] = c

RECURSIVE StringLess(_, _)
\* std::less<std::string>, the key order of the model_metrics map
StringLess(a, b) ==
    IF Len(b) = 0 THEN FALSE
    ELSE IF Len(a) = 0 THEN TRUE
    ELSE IF a[1] # b[1] THEN CharCode(a[1]) < CharCode(b[1])
    ELSE StringLess(Tail(a), Tail(b))

RECURSIVE InKeyOrder(_)
\* The keys of a std::map in iteration order.
InKeyOrder(keys) ==
    IF keys = {} THEN << >>
    ELSE LET first == CHOOSE k \in keys : \A j \in keys \ {k} : StringLess(k, j)
         IN  << first >> \o InKeyOrder(keys \ { first })

RECURSIVE Sum(_)
Sum(s) == IF Len(s) = 0 THEN 0 ELSE Head(s) + Sum(Tail(s))

\* A variant of needsOptimization without the test of the ring's size.
needsOptimizationAnySize(metrics) ==
    /\ Len(metrics.vram_samples) > 0
    /\ 10 * Sum(metrics.vram_samples)
          < 7 * metrics.configured_max_utilization * Len(metrics.vram_samples)
    /\ metrics.peak_usage > 0

\* A variant of needsOptimization that asks for more than 10 samples.
needsOptimizationAboveTen(metrics) ==
    /\ Len(metrics.vram_samples) > MIN_OPT_SAMPLES
    /\ 10 * Sum(metrics.vram_samples)
          < 7 * metrics.configured_max_utilization * Len(metrics.vram_samples)
    /\ metrics.peak_usage > 0

\* optimizeModelAllocations, the test of one record: at least 10 samples,
\* mean < configured_max_utilization * 100 * 0.7 and peak_usage > 0.  Budgets
\* are in percent, so mean < budget * 0.7 is 10 * sum < 7 * budget * size.
needsOptimization(metrics) ==
    /\ Len(metrics.vram_samples) >= MIN_OPT_SAMPLES
    /\ 10 * Sum(metrics.vram_samples)
          < 7 * metrics.configured_max_utilization * Len(metrics.vram_samples)
    /\ metrics.peak_usage > 0

\* optimizeModelAllocations: the marked containers after the cleanup, in the
\* key order of the map.
optimizeModelAllocations(mm, cs, order) ==
    LET cleaned == cleanupStaleModelMetrics(mm, cs, order)
    IN  SelectSeq(InKeyOrder(DOMAIN cleaned), LAMBDA n : needsOptimization(cleaned[n]))

\* -------------------------------------------------------- services/hf_deploy
\* getMaxGPUUtilizationFromConfig: the value of the key as the file holds it,
\* 0.95 when the file cannot be loaded.
getMaxGPUUtilizationFromConfig(cfg) ==
    IF cfg.present THEN cfg.gpu_memory_utilization ELSE DEFAULT_GPU_UTIL

\* What the remote registry answers to validateHFModel(model_id): not valid
\* (not found, or the request failed), valid with the id itself when the
\* registry knows it, valid with the id a search substituted otherwise.
ValidationResults(model_id) ==
    { [ valid |-> FALSE, id |-> << >> ] }
        \cup (IF Len(model_id) = 0 THEN { }
              ELSE IF model_id \in CanonicalIds THEN { [ valid |-> TRUE, id |-> model_id ] }
              ELSE { [ valid |-> TRUE, id |-> c ] : c \in CanonicalIds })

\* The state the runtime reports for a container docker run has just made,
\* when deployHFModel looks at it for the last time; "none" when docker run
\* made no container.
RunResults == { "none", "created", "running", "exited" }

\* A DeployResponse.  The message is kept as its fixed text and the numbers
\* that absl::StrCat puts into it.
DeployResponse(success, message, current, max_allowed, container_id, port) ==
    [ success |-> success, message |-> message, current |-> current,
      max_allowed |-> max_allowed, container_id |-> container_id, port |-> port ]

\* What a deployHFModel call leaves behind: its response and the runtime and
\* registry after it.
DeployOutcome(response, cs, order, mm) ==
    [ response |-> response, containers |-> cs, psOrder |-> order, model_metrics |-> mm ]

\* The port pre-check: a running container other than container_name whose
\* Ports column contains ":<port>".
portInUseByOther(cs, order, port, container_name) ==
    LET running == PsRunning(cs, order)
    IN  \E i \in 1..Len(running) :
            /\ PortsFieldHas[cs[running[i]].port][port]
            /\ running[i] # container_name

\* A variant of finalCheckIsRunning that takes any status line ps -a prints.
finalCheckExists(cs, container_id) == cs[container_id].state # "absent"

\* is_running of the final check: ps --filter id=<id> prints a status that
\* begins with "Up" only for a running container.
finalCheckIsRunning(cs, container_id) == cs[container_id].state = "running"

\* response.success as deployHFModel sets it from is_running and is_healthy.
deploySuccess(is_running, is_healthy) ==
    IF is_running /\ is_healthy THEN TRUE
    ELSE IF is_running THEN TRUE
    ELSE FALSE

\* The registry deployHFModel leaves after its final check.
registerAfterStart(mm, container_name, max_gpu_util, is_running) ==
    registerModelDeployment(mm, container_name, max_gpu_util)

\* deployHFModel from the replace step on: stop and remove the first
\* container the name filter lists, docker run, find the container id, the
\* final check, the registration and the response.
startContainer(container_name, port, max_gpu_util, run, is_healthy, cs, order, mm) ==
    LET existing == PsAllByName(cs, order, container_name)
        cs1 == IF Len(existing) = 0 THEN cs
               ELSE AfterRm(AfterStop(cs, existing[1]), existing[1])
        order1 == IF Len(existing) = 0 THEN order
                  ELSE OrderAfterRm(AfterStop(cs, existing[1]), order, existing[1])
        \* docker run --name: refused when the name is taken; a container
        \* whose host port is bound is created but cannot start.
        made == ~Exists(cs1, container_name) /\ run # "none"
        state == IF PortBound(cs1, port) THEN "created" ELSE run
        cs2 == IF made THEN [ cs1 EXCEPT ![container_name] = [ state |-> state, port |-> port ] ]
               ELSE cs1
        order2 == IF made THEN << container_name >> \o order1 ELSE order1
        \* the id docker run printed, else the first line of the name filter
        found == PsAllByName(cs2, order2, container_name)
    IN  IF Len(found) = 0
        THEN DeployOutcome(DeployResponse(FALSE, "Deployment failed", 0, 0, << >>, port),
                           cs2, order2, mm)
        ELSE LET container_id == found[1]
                 is_running == finalCheckIsRunning(cs2, container_id)
                 success == deploySuccess(is_running, is_running /\ is_healthy)
             IN  DeployOutcome(
                     DeployResponse(success,
                                    IF is_running /\ is_healthy
                                    THEN "Model deployed successfully"
                                    ELSE IF is_running THEN "Container started"
                                    ELSE "Container created but failed to start",
                                    0, 0, container_id, port),
                     cs2, order2,
                     registerAfterStart(mm, container_name, max_gpu_util, is_running))

\* The message of a refused admission: "Cannot deploy: <current> models
\* already deployed (max: <max_allowed>)".
admissionDenied(cs, order, e, port) ==
    DeployResponse(FALSE, "Cannot deploy", getDeployedModelCount(cs, order),
                   getMaxConcurrentModels(e), << >>, port)

\* deployHFModel(model_id, hf_token, port, gpu_type, custom_config_path).
\* token: whether hf_token is non-empty; max_gpu_util: what the chosen config
\* file holds; validation, image_ok, run, is_healthy: what the remote
\* registry, docker pull, docker run and the /health probe answer.
deployHFModel(model_id, token, port, max_gpu_util, validation, image_ok, run, is_healthy, cs, order, mm, e) ==
    IF Len(model_id) = 0
    THEN DeployOutcome(DeployResponse(FALSE, "Model ID is required", 0, 0, << >>, port),
                       cs, order, mm)
    ELSE IF ~token /\ ~e.HF_TOKEN
    THEN DeployOutcome(DeployResponse(FALSE, "HF token is required", 0, 0, << >>, port),
                       cs, order, mm)
    ELSE IF ~canDeployModel(cs, order, e)
    THEN DeployOutcome(admissionDenied(cs, order, e, port), cs, order, mm)
    ELSE IF ~validation.valid
    THEN DeployOutcome(DeployResponse(FALSE, "Model validation failed", 0, 0, << >>, port),
                       cs, order, mm)
    ELSE IF portInUseByOther(cs, order, port, ContainerNameOf[validation.id])
    THEN DeployOutcome(DeployResponse(FALSE, "Port is already in use", 0, 0, << >>, port),
                       cs, order, mm)
    ELSE IF ~image_ok
    THEN DeployOutcome(DeployResponse(FALSE, "Failed to pull required Docker image",
                                      0, 0, << >>, port),
                       cs, order, mm)
    ELSE startContainer(ContainerNameOf[validation.id], port, max_gpu_util, run,
                        is_healthy, cs, order, mm)

\* ----------------------------------------------------- the request handlers
\* What a handler hands to http::write, the status line and the JSON body,
\* kept with the request fields it answers.
HttpResponse(kind, request, status, body) ==
    [ kind |-> kind, request |-> request, status |-> status, body |-> body ]

\* A variant of deployRejection without the model_id test.
deployRejectionTokenOnly(model_id, token, e) ==
    IF ~token /\ ~e.HF_TOKEN THEN "hf_token is required"
    ELSE "none"

\* handleDeployRequest, the two rejections before deployHFModel: the message
\* of the one that applies, "none" when the request goes on.
deployRejection(model_id, token, e) ==
    IF Len(model_id) = 0 THEN "model_id is required or contains only whitespace"
    ELSE IF ~token /\ ~e.HF_TOKEN THEN "hf_token is required"
    ELSE "none"

\* handleDeployRequest, for one request body and one set of answers of the
\* remote registry and the runtime.
deployRequest(model_id_raw, token, requested_port, max_gpu_util, validation, image_ok, run, is_healthy) ==
    LET model_id == Trimmed[model_id_raw]
        port == getNextAvailablePort(requested_port, containers, psOrder, env)
        request == [ model_id |-> model_id_raw, hf_token |-> token ]
        rejection == deployRejection(model_id, token, env)
    IN  IF rejection # "none"
        THEN DeployOutcome(
                 HttpResponse("deploy", request, HTTP_BAD_REQUEST,
                              DeployResponse(FALSE, rejection, 0, 0, << >>, 0)),
                 containers, psOrder, model_metrics)
        ELSE LET out == deployHFModel(model_id, TRUE, port, max_gpu_util, validation,
                                      image_ok, run, is_healthy,
                                      containers, psOrder, model_metrics, env)
             IN  DeployOutcome(HttpResponse("deploy", request, HTTP_OK, out.response),
                               out.containers, out.psOrder, out.model_metrics)

HandleDeploy ==
    /\ pc = "idle"
    /\ \E model_id_raw \in RequestIds, token \in BOOLEAN, requested_port \in RequestPorts,
          max_gpu_util \in { getMaxGPUUtilizationFromConfig(config) } :
        \E validation \in ValidationResults(Trimmed[model_id_raw]) :
         \E image_ok \in (IF validation.valid THEN BOOLEAN ELSE { TRUE }) :
           \E run \in (IF validation.valid /\ image_ok THEN RunResults ELSE { "none" }) :
             \E is_healthy \in (IF run = "running" THEN BOOLEAN ELSE { FALSE }) :
               LET out == deployRequest(model_id_raw, token, requested_port, max_gpu_util,
                                        validation, image_ok, run, is_healthy)
               IN  /\ resp' = out.response
                   /\ containers' = out.containers
                   /\ psOrder' = out.psOrder
                   /\ model_metrics' = out.model_metrics
    /\ pc' = "respond"
    /\ UNCHANGED << sideVars, env, to_restart, restarted >>

\* spindownModel: the container name, the registry without it, the runtime
\* after stop and rm, and whether one of the two succeeded.
spindownModel(model_id_or_container, cs, order, mm) ==
    LET container_name == IF StartsWith(model_id_or_container, VllmPrefix)
                          THEN model_id_or_container
                          ELSE getContainerName(model_id_or_container)
        stop_ok == StopOk(cs, container_name)
        cs1 == AfterStop(cs, container_name)
        rm_ok == RmOk(cs1, container_name)
    IN  [ container_name |-> container_name,
          model_metrics |-> unregisterModel(mm, container_name),
          containers |-> AfterRm(cs1, container_name),
          psOrder |-> OrderAfterRm(cs1, order, container_name),
          success |-> (stop_ok \/ rm_ok) ]

\* What a spindown request names: model_id if given, else container_id.
SpindownTargets == CanonicalIds \cup ContainerNames \cup { << >> }

HandleSpindown ==
    /\ pc = "idle"
    /\ \E target \in SpindownTargets :
         IF Len(target) = 0
         THEN /\ resp' = HttpResponse("spindown", target, HTTP_BAD_REQUEST,
                                  [ success |-> FALSE ])
              /\ UNCHANGED << containers, psOrder, model_metrics >>
         ELSE LET out == spindownModel(target, containers, psOrder, model_metrics)
              IN  /\ resp' = HttpResponse("spindown", target,
                                  IF out.success THEN HTTP_OK ELSE HTTP_INTERNAL_ERROR,
                                  [ success |-> out.success ])
                  /\ containers' = out.containers
                  /\ psOrder' = out.psOrder
                  /\ model_metrics' = out.model_metrics
    /\ pc' = "respond"
    /\ UNCHANGED << sideVars, env, to_restart, restarted >>

\* http::write of the prepared response; the accept loop takes the next
\* connection.
Respond ==
    /\ pc = "respond"
    /\ pc' = "idle"
    /\ resp' = NoResp
    /\ UNCHANGED << sideVars, env, containers, psOrder, model_metrics, to_restart, restarted >>

\* handleOptimizeRequest is not in its loop: no DeployResponse.
NoDeployRes == [ success |-> FALSE, message |-> "none" ]

\* handleOptimizeRequest up to the loop: optimizeModelAllocations prunes the
\* registry and marks; with nothing marked the handler answers at once.
OptimizeMarks ==
    /\ pc = "idle"
    /\ LET marked == optimizeModelAllocations(model_metrics, containers, psOrder)
       IN  /\ model_metrics' = cleanupStaleModelMetrics(model_metrics, containers, psOrder)
           /\ IF Len(marked) = 0
              THEN /\ resp' = HttpResponse("optimize", << >>, HTTP_OK,
                                  [ success |-> TRUE, optimized |-> FALSE,
                                    restarted_models |-> << >> ])
                   /\ pc' = "respond"
                   /\ UNCHANGED << to_restart, restarted >>
              ELSE /\ pc' = "optimize"
                   /\ to_restart' = marked
                   /\ restarted' = << >>
                   /\ UNCHANGED resp
    /\ UNCHANGED << sideVarsButOptimize, deploy_res, env, containers, psOrder >>

HandleOptimize ==
    /\ OptimizeMarks
    /\ UNCHANGED << rounds, sinceRestart >>

\* The values the fields listDeployedModels leaves unset can hold when
\* handleOptimizeRequest reads peak_vram_usage_percent, in percent.
UnsetPeaks == { 0, 30 }

\* if (peak_usage < 0.1) peak_usage = 0.1; if (peak_usage > 0.95) peak_usage = 0.95
clampBudget(peak_usage) ==
    IF peak_usage < MIN_BUDGET THEN MIN_BUDGET
    ELSE IF peak_usage > MAX_BUDGET THEN MAX_BUDGET
    ELSE peak_usage

\* The temp config handleOptimizeRequest writes: the original with the key
\* set to peak_usage; when YAML::LoadFile throws, a copy of the original.
optimizedConfig(cfg, peak_usage) ==
    IF cfg.present THEN ConfigFile(peak_usage) ELSE cfg

\* One round of the loop of handleOptimizeRequest, for the marked container
\* container_name: look it up in listDeployedModels, spin it down, and deploy
\* the model id read back from the list on port 8000 with the clamped budget.
optimizeOne(container_name, peak_vram_usage_percent, validation, image_ok, run, is_healthy) ==
    LET models == listDeployedModels(containers, psOrder)
        hits == SelectSeq(models, LAMBDA m : m.container_name = container_name)
    IN  IF Len(hits) = 0 \/ Len(hits[1].model_id) = 0
        THEN DeployOutcome(DeployResponse(FALSE, "skipped", 0, 0, << >>, 0),
                           containers, psOrder, model_metrics)
        ELSE LET down == spindownModel(container_name, containers, psOrder, model_metrics)
                 temp_config == optimizedConfig(config, clampBudget(peak_vram_usage_percent))
             IN  deployHFModel(hits[1].model_id, env.HF_TOKEN, OPTIMIZE_PORT,
                               getMaxGPUUtilizationFromConfig(temp_config),
                               validation, image_ok, run, is_healthy,
                               down.containers, down.psOrder, down.model_metrics, env)

\* A variant of collectRestarted that lists the container whatever the
\* re-deploy answered.
collectRestartedAlways(restarted_so_far, container_name, response) ==
    Append(restarted_so_far, container_name)

\* if (deploy_res.success) restarted.push_back(container_name)
collectRestarted(restarted_so_far, container_name, response) ==
    IF response.success THEN Append(restarted_so_far, container_name)
    ELSE restarted_so_far

OptimizeRound ==
    /\ pc = "optimize"
    /\ Len(to_restart) > 0
    /\ \E peak \in UnsetPeaks :
        \E validation \in ValidationResults(ModelIdOfName[Head(to_restart)]) :
         \E image_ok \in (IF validation.valid THEN BOOLEAN ELSE { TRUE }) :
           \E run \in (IF validation.valid /\ image_ok THEN RunResults ELSE { "none" }) :
             \E is_healthy \in (IF run = "running" THEN BOOLEAN ELSE { FALSE }) :
               LET out == optimizeOne(Head(to_restart), peak, validation, image_ok,
                                      run, is_healthy)
               IN  /\ containers' = out.containers
                   /\ psOrder' = out.psOrder
                   /\ model_metrics' = out.model_metrics
                   /\ deploy_res' = out.response
                   /\ restarted' = collectRestarted(restarted, Head(to_restart), out.response)
    /\ to_restart' = Tail(to_restart)
    /\ UNCHANGED << sideVarsButOptimize, env, pc, resp >>

OptimizeStep ==
    /\ OptimizeRound
    /\ UNCHANGED << rounds, sinceRestart >>

\* The end of handleOptimizeRequest: the response with the restarted list.
OptimizeDone ==
    /\ pc = "optimize"
    /\ Len(to_restart) = 0
    /\ resp' = HttpResponse("optimize", << >>, HTTP_OK,
                   [ success |-> TRUE, optimized |-> TRUE, restarted_models |-> restarted ])
    /\ pc' = "respond"
    /\ restarted' = << >>
    /\ deploy_res' = NoDeployRes
    /\ UNCHANGED << sideVarsButOptimize, rounds, sinceRestart, env, containers, psOrder, model_metrics, to_restart >>

\* GET /vram/stream: the SSE headers are written and the handler enters its
\* loop; the accept loop waits for it.
HandleStream ==
    /\ pc = "idle"
    /\ pc' = "stream"
    /\ UNCHANGED << sideVars, env, containers, psOrder, model_metrics, to_restart, restarted, resp >>

RECURSIVE recordAll(_, _, _, _, _)
\* for (model : models) updateModelVRAMUsage(model.container_name, vram_percent)
recordAll(mm, cs, order, models, vram_percent) ==
    IF Len(models) = 0 THEN mm
    ELSE recordAll(updateModelVRAMUsage(mm, cs, order, Head(models).container_name,
                                        vram_percent),
                   cs, order, Tail(models), vram_percent)

\* One iteration of the stream loop.  model.pid is read although
\* listDeployedModels never sets it: pid_positive is whether the value found
\* there is > 0, and vram_percent what the GPU probe reports for that pid.
StreamRecords ==
    /\ pc = "stream"
    /\ \A n \in DOMAIN model_metrics : Len(model_metrics[n].vram_samples) < MaxRingLen
    /\ \E pid_positive \in BOOLEAN, vram_percent \in SampleValues :
         model_metrics' =
             IF pid_positive
             THEN recordAll(model_metrics, containers, psOrder,
                            listDeployedModels(containers, psOrder), vram_percent)
             ELSE model_metrics
    /\ UNCHANGED << sideVarsButOptimize, deploy_res, env, containers, psOrder, pc, to_restart, restarted, resp >>

StreamIteration ==
    /\ StreamRecords
    /\ UNCHANGED << rounds, sinceRestart >>

\* The peer closes the stream: http::write fails, the loop breaks and the
\* handler returns to the accept loop.
StreamDisconnect ==
    /\ pc = "stream"
    /\ pc' = "idle"
    /\ UNCHANGED << sideVars, env, containers, psOrder, model_metrics, to_restart, restarted, resp >>

\* acceptConnections: accept, http::read and handleRequest run one after the
\* other on the accept-loop thread, so the next connection is accepted when
\* the handler of the present one has returned: the step that takes a request.
AcceptRequest ==
    \/ HandleDeploy
    \/ HandleSpindown
    \/ HandleOptimize
    \/ HandleStream

\* -------------------------------------------------------------- health loop
\* checkVLLMHealth, one tick of the thread startHealthCheckThread starts: the
\* cleanup, then a /health probe of every listed model, which only logs.
checkVLLMHealth(mm, cs, order) == cleanupStaleModelMetrics(mm, cs, order)

HealthTick ==
    /\ model_metrics' = checkVLLMHealth(model_metrics, containers, psOrder)
    /\ UNCHANGED << sideVars, env, containers, psOrder, pc, to_restart, restarted, resp >>

\* ------------------------------------------------------------- environment
\* A running container exits on its own.
ContainerExits ==
    \E n \in ContainerNames :
        /\ containers[n].state = "running"
        /\ containers' = [ containers EXCEPT ![n].state = "exited" ]
        /\ UNCHANGED << sideVars, env, psOrder, model_metrics, pc, to_restart, restarted, resp >>

\* A container that was created but not yet running becomes Running late; the
\* runtime starts it only while no running container holds its host port.
ContainerStartsLate ==
    \E n \in ContainerNames :
        /\ containers[n].state = "created"
        /\ ~PortBound(containers, containers[n].port)
        /\ containers' = [ containers EXCEPT ![n].state = "running" ]
        /\ UNCHANGED << sideVars, env, psOrder, model_metrics, pc, to_restart, restarted, resp >>

\* ------------------------------------------------------------ specification
\* The environment files: MAX_CONCURRENT_MODELS=1 with the token left to the
\* request, and HF_TOKEN alone with every other key at its default.
EnvFiles ==
    { [ MAX_CONCURRENT_MODELS |-> << "1" >>, HF_TOKEN |-> FALSE, START_PORT |-> << >> ],
      [ MAX_CONCURRENT_MODELS |-> << >>, HF_TOKEN |-> TRUE, START_PORT |-> << >> ] }

NotCalled == [ called |-> FALSE, returned |-> FALSE, port |-> 0 ]
NoPortQuery == [ preferred_port |-> 0, used_ports |-> { }, start_port_env |-> << >> ]
\* A call into model_metrics: the function, its arguments, and the names
\* listDeployedModels gave it before it touches the map.
RegistryCall(fn, container_name, vram_percent, running_container_names) ==
    [ fn |-> fn, container_name |-> container_name, vram_percent |-> vram_percent,
      running_container_names |-> running_container_names ]
Outside == RegistryCall("none", << >>, 0, { })
NoThreadInside == [ t \in { "accept", "health" } |-> Outside ]
\* The health thread where the lifecycle leaves it: between two ticks.
HealthNotStarted == [ pc |-> "sleeping", last |-> "none" ]
\* No validateHFModel call is under way.
NotValidating == [ pc |-> "none" ]
\* No sample was pushed.
NothingInserted == { }
\* No GET /vram/aggregated is being served.
NotCollecting == [ pc |-> "none" ]
\* getDetailedVRAMUsage was not called.
NoSnapshot == [ pc |-> "none" ]
\* No GET /vram/stream is being served.
NotStreaming == [ pc |-> "none" ]
\* The threads that call getEnvValue, and the keys each asks for: the health
\* thread through getDockerCmd, the accept loop through the handlers.
EnvThreads == { "accept", "health" }
EnvKeys == { "USE_SUDO_DOCKER", "MAX_CONCURRENT_MODELS", "HF_TOKEN", "START_PORT" }
KeysOf(t) == IF t = "health" THEN { "USE_SUDO_DOCKER" } ELSE EnvKeys
\* The keys the project .env holds when they are set; HF_TOKEN, when it is
\* set, is in the .env of the home directory.
RootEnvKeys == { "MAX_CONCURRENT_MODELS", "START_PORT" }
HomeEnvKeys == { "HF_TOKEN" }
\* Whether the environment file e sets the key.
IsSetIn(e, key) ==
    IF key = "HF_TOKEN" THEN e.HF_TOKEN
    ELSE IF key \in DOMAIN e THEN Len(e[key]) > 0
    ELSE FALSE
\* loadEnvFile(path): a map with one entry for each key the file sets.  An
\* entry is held as the file it was read from, a missing one as "unset".
loadEnvFile(e, file_keys, path) ==
    [ key \in EnvKeys |-> IF key \in file_keys /\ IsSetIn(e, key) THEN path ELSE "unset" ]
\* env_cache.insert(home_cache.begin(), home_cache.end()): the entries of
\* home_cache whose key the cache does not hold yet.
insertHome(cache, home_cache) ==
    [ key \in EnvKeys |-> IF cache[key] # "unset" THEN cache[key] ELSE home_cache[key] ]
\* env_cache before the first call, and where the lifecycle finds it: filled
\* by the first getEnvValue call of the process, nobody inside getEnvValue.
EnvCacheEmpty == [ entries |-> [ key \in EnvKeys |-> "unset" ], assigned |-> 0 ]
EnvCacheOf(e) ==
    [ entries  |-> insertHome(loadEnvFile(e, RootEnvKeys, "root"),
                              loadEnvFile(e, HomeEnvKeys, "home")),
      assigned |-> 1 ]
OutsideGetEnv == [ pc |-> "outside", key |-> "none", value |-> "none" ]
NobodyInGetEnv == [ t \in EnvThreads |-> OutsideGetEnv ]

Init ==
    /\ env \in EnvFiles
    /\ config \in { ConfigFile(b) : b \in ConfigBudgets }
    /\ containers = [ n \in ContainerNames |-> NoContainer ]
    /\ psOrder = << >>
    /\ model_metrics = << >>
    /\ pc = "idle"
    /\ to_restart = << >>
    /\ restarted = << >>
    /\ resp = NoResp
    /\ portQuery = NoPortQuery
    /\ portScan = NotCalled
    /\ inRegistry = NoThreadInside
    /\ health = HealthNotStarted
    /\ validate = NotValidating
    /\ inserted = NothingInserted
    /\ deploy_res = NoDeployRes
    /\ rounds = << >>
    /\ sinceRestart = << >>
    /\ env_loaded = TRUE
    /\ env_cache = EnvCacheOf(env)
    /\ inGetEnv = NobodyInGetEnv
    /\ recorded = << >>
    /\ aggregation = NotCollecting
    /\ snapshot = NoSnapshot
    /\ stream = NotStreaming

Next ==
    \/ HandleDeploy
    \/ HandleSpindown
    \/ HandleOptimize
    \/ OptimizeStep
    \/ OptimizeDone
    \/ HandleStream
    \/ StreamIteration
    \/ StreamDisconnect
    \/ Respond
    \/ HealthTick
    \/ ContainerExits
    \/ ContainerStartsLate

Spec == Init /\ [][Next]_vars

\* ---------------------------------------------------- port selection alone
\* getNextAvailablePort called once with a preferred port, a set of used
\* ports and a START_PORT value, and run one loop test at a time.
StartPortValues == { << >>, << "8", "5", "0", "0" >> }
PreferredPorts == { 0, 8000, 8001, 9500 }
UsedPortSets ==
    { { }, { 8000 }, { 8001 }, { 8000, 8001 }, { 8000, 8002 }, { 8500 }, { 8500, 8501 },
      8000..8998, 8000..8999, 8000..9000, 8500..9499, (8000..8999) \cup { 9500 } }
PortQueries ==
    [ preferred_port : PreferredPorts, used_ports : UsedPortSets,
      start_port_env : StartPortValues ]

InitPort ==
    /\ portQuery \in PortQueries
    /\ portScan = NotCalled
    /\ env = [ MAX_CONCURRENT_MODELS |-> << >>, HF_TOKEN |-> FALSE,
               START_PORT |-> portQuery.start_port_env ]
    /\ config \in { ConfigFile(b) : b \in ConfigBudgets }
    /\ containers = [ n \in ContainerNames |-> NoContainer ]
    /\ psOrder = << >>
    /\ model_metrics = << >>
    /\ pc = "idle"
    /\ to_restart = << >>
    /\ restarted = << >>
    /\ resp = NoResp
    /\ inRegistry = NoThreadInside
    /\ health = HealthNotStarted
    /\ validate = NotValidating
    /\ inserted = NothingInserted
    /\ deploy_res = NoDeployRes
    /\ rounds = << >>
    /\ sinceRestart = << >>
    /\ env_loaded = TRUE
    /\ env_cache = EnvCacheOf(env)
    /\ inGetEnv = NobodyInGetEnv
    /\ recorded = << >>
    /\ aggregation = NotCollecting
    /\ snapshot = NoSnapshot
    /\ stream = NotStreaming

\* The call, up to the loop.
PortCall ==
    /\ ~portScan.called
    /\ LET start_port == startPort(getEnvValue(env, "START_PORT", << >>))
           scan == scanStart(portQuery.preferred_port, portQuery.used_ports, start_port)
       IN  portScan' = [ called |-> TRUE, returned |-> scan.returned, port |-> scan.port ]
    /\ UNCHANGED << lifecycleVars, portQuery, inRegistry, aloneVars >>

\* One test of the loop.
PortLoop ==
    /\ portScan.called
    /\ ~portScan.returned
    /\ LET start_port == startPort(getEnvValue(env, "START_PORT", << >>))
           scan == scanStep(portScan.port, start_port + PORT_SCAN_RANGE,
                            portQuery.used_ports, start_port)
       IN  portScan' = [ called |-> TRUE, returned |-> scan.returned, port |-> scan.port ]
    /\ UNCHANGED << lifecycleVars, portQuery, inRegistry, aloneVars >>

NextPort ==
    \/ PortCall
    \/ PortLoop

SpecPort == InitPort /\ [][NextPort]_vars

\* ------------------------------------------------ the two threads alone
\* main.cpp starts the health thread (startHealthCheckThread) and then runs
\* the accept loop; both call into model_metrics, a static std::map that no
\* function of model_manager.cpp guards.  Here each call into the map is
\* entered and left in separate steps, over a runtime whose containers are
\* already there.
RuntimeStates ==
    { cs \in [ ContainerNames ->
                 { NoContainer } \cup [ state : { "running" }, port : HostPorts ] ] :
        \A a, b \in ContainerNames :
            (a # b /\ IsRunning(cs, a) /\ IsRunning(cs, b)) => cs[a].port # cs[b].port }

InitThreads ==
    /\ env \in EnvFiles
    /\ config \in { ConfigFile(b) : b \in ConfigBudgets }
    /\ containers \in RuntimeStates
    /\ psOrder = InKeyOrder({ n \in ContainerNames : Exists(containers, n) })
    /\ model_metrics = << >>
    /\ pc = "idle"
    /\ to_restart = << >>
    /\ restarted = << >>
    /\ resp = NoResp
    /\ portQuery = NoPortQuery
    /\ portScan = NotCalled
    /\ inRegistry = NoThreadInside
    /\ health = HealthNotStarted
    /\ validate = NotValidating
    /\ inserted = NothingInserted
    /\ deploy_res = NoDeployRes
    /\ rounds = << >>
    /\ sinceRestart = << >>
    /\ env_loaded = TRUE
    /\ env_cache = EnvCacheOf(env)
    /\ inGetEnv = NobodyInGetEnv
    /\ recorded = << >>
    /\ aggregation = NotCollecting
    /\ snapshot = NoSnapshot
    /\ stream = NotStreaming

\* The calls the request handlers make: registerModelDeployment at the end
\* of deployHFModel, unregisterModel at the head of spindownModel,
\* updateModelVRAMUsage in the stream loop, optimizeModelAllocations at the
\* head of handleOptimizeRequest.
AcceptCalls(cs, order, mm) ==
    LET running == runningContainerNames(cs, order)
    IN  { RegistryCall("registerModelDeployment", n, 0, { }) :
              n \in { m \in ContainerNames : Exists(cs, m) } }
          \cup { RegistryCall("unregisterModel", n, 0, { }) : n \in ContainerNames }
          \cup { RegistryCall("updateModelVRAMUsage", n, v, running) :
                     n \in { m \in running :
                               m \in DOMAIN mm => Len(mm[m].vram_samples) < MaxRingLen },
                     v \in SampleValues }
          \cup { RegistryCall("optimizeModelAllocations", << >>, 0, running) }

\* The map after the call, when no other thread was inside.
applyCall(call, mm) ==
    CASE call.fn = "registerModelDeployment" ->
             registerModelDeployment(mm, call.container_name, DEFAULT_GPU_UTIL)
      [] call.fn = "unregisterModel" -> unregisterModel(mm, call.container_name)
      [] call.fn = "updateModelVRAMUsage" ->
             recordSample(eraseStale(mm, call.running_container_names),
                          call.container_name, call.vram_percent)
      [] OTHER -> eraseStale(mm, call.running_container_names)

\* The map a call leaves.  Two threads inside an unguarded std::map is a data
\* race: the build may complete the call or lose it.
callOutcomes(t, mm) ==
    IF \E u \in DOMAIN inRegistry : u # t /\ inRegistry[u].fn # "none"
    THEN { applyCall(inRegistry[t], mm), mm }
    ELSE { applyCall(inRegistry[t], mm) }

AcceptEntersRegistry ==
    /\ inRegistry["accept"].fn = "none"
    /\ \E call \in AcceptCalls(containers, psOrder, model_metrics) :
         inRegistry' = [ inRegistry EXCEPT !["accept"] = call ]
    /\ UNCHANGED << lifecycleVars, portQuery, portScan, aloneVars >>

AcceptLeavesRegistry ==
    /\ inRegistry["accept"].fn # "none"
    /\ model_metrics' \in callOutcomes("accept", model_metrics)
    /\ inRegistry' = [ inRegistry EXCEPT !["accept"] = Outside ]
    /\ UNCHANGED << env, config, containers, psOrder, pc, to_restart, restarted, resp,
                    optimizeVars, envCacheVars,
                    portQuery, portScan, aloneVars >>

\* checkVLLMHealth -> cleanupStaleModelMetrics on the health thread.
HealthEntersRegistry ==
    /\ inRegistry["health"].fn = "none"
    /\ inRegistry' = [ inRegistry EXCEPT !["health"] =
                         RegistryCall("cleanupStaleModelMetrics", << >>, 0,
                                      runningContainerNames(containers, psOrder)) ]
    /\ UNCHANGED << lifecycleVars, portQuery, portScan, aloneVars >>

HealthLeavesRegistry ==
    /\ inRegistry["health"].fn # "none"
    /\ model_metrics' \in callOutcomes("health", model_metrics)
    /\ inRegistry' = [ inRegistry EXCEPT !["health"] = Outside ]
    /\ UNCHANGED << env, config, containers, psOrder, pc, to_restart, restarted, resp,
                    optimizeVars, envCacheVars,
                    portQuery, portScan, aloneVars >>

NextThreads ==
    \/ AcceptEntersRegistry
    \/ AcceptLeavesRegistry
    \/ HealthEntersRegistry
    \/ HealthLeavesRegistry
    \/ ContainerExits

SpecThreads == InitThreads /\ [][NextThreads]_vars

\* ------------------------------------------------ the health thread alone
\* The lambda of startHealthCheckThread, one step for the sleep and one for
\* the tick, over a runtime whose containers are already there and a registry
\* that holds fresh records, some of them stale.
\*
\* What checkVLLMHealth and its callees can throw: the std::string and
\* absl::StrCat operations allocate (bad_alloc, length_error) and take
\* substrings (out_of_range); the std::stoi calls of listDeployedModels are
\* inside catch (...) blocks and no statement of the call tree throws a type
\* that is not a std::exception.
TickExceptions == { "std::bad_alloc", "std::length_error", "std::out_of_range" }
\* The classes among them that derive from std::logic_error.
LogicErrors == { "std::length_error", "std::out_of_range" }

\* A variant of catchesStdException for a handler catch (const std::logic_error&).
catchesLogicError(e) == e \in LogicErrors

\* catch (const std::exception& e): every class that derives from it.
catchesStdException(e) == e \in LogicErrors \cup { "std::bad_alloc", "std::runtime_error" }

\* The registries a deployment history can have left: a fresh record for any
\* of the container names.
FreshRegistries ==
    { registerModelDeployment(registerModelDeployment(<< >>, a, DEFAULT_GPU_UTIL),
                              b, DEFAULT_GPU_UTIL) : a, b \in ContainerNames }
        \cup { << >> }

InitHealth ==
    /\ env \in EnvFiles
    /\ config \in { ConfigFile(b) : b \in ConfigBudgets }
    /\ containers \in RuntimeStates
    /\ psOrder = InKeyOrder({ n \in ContainerNames : Exists(containers, n) })
    /\ model_metrics \in FreshRegistries
    /\ pc = "idle"
    /\ to_restart = << >>
    /\ restarted = << >>
    /\ resp = NoResp
    /\ portQuery = NoPortQuery
    /\ portScan = NotCalled
    /\ inRegistry = NoThreadInside
    /\ health = HealthNotStarted
    /\ validate = NotValidating
    /\ inserted = NothingInserted
    /\ deploy_res = NoDeployRes
    /\ rounds = << >>
    /\ sinceRestart = << >>
    /\ env_loaded = TRUE
    /\ env_cache = EnvCacheOf(env)
    /\ inGetEnv = NobodyInGetEnv
    /\ recorded = << >>
    /\ aggregation = NotCollecting
    /\ snapshot = NoSnapshot
    /\ stream = NotStreaming

\* std::this_thread::sleep_for(5 s) returns and the try block is entered.
HealthSleepEnds ==
    /\ health.pc = "sleeping"
    /\ health' = [ health EXCEPT !.pc = "checking" ]
    /\ UNCHANGED << lifecycleVars, portQuery, portScan, inRegistry, validate, inserted, telemetryVars >>

\* checkVLLMHealth returns.  listed: whether timeout 5 docker ps produced its
\* list; without it listDeployedModels returns no model, the cleanup meets an
\* empty set of running names and the tick returns before any probe.
\* probes_ok: whether every /health probe answered 200; a probe that does not
\* is logged.
HealthCheckReturns ==
    /\ health.pc = "checking"
    /\ \E listed \in BOOLEAN, probes_ok \in BOOLEAN :
         LET models == IF listed THEN listDeployedModels(containers, psOrder) ELSE << >>
         IN  /\ model_metrics' =
                   eraseStale(model_metrics,
                              { models[i].container_name : i \in 1..Len(models) })
             /\ (Len(models) = 0) => probes_ok
             /\ health' = [ pc |-> "sleeping",
                            last |-> IF ~listed THEN "list failed"
                                     ELSE IF ~probes_ok THEN "probe failed"
                                     ELSE "ok" ]
    /\ UNCHANGED << env, config, containers, psOrder, pc, to_restart, restarted, resp,
                    optimizeVars, envCacheVars,
                    portQuery, portScan, inRegistry, validate, inserted, telemetryVars >>

\* checkVLLMHealth throws, before or after its cleanup.  The handler of the
\* loop logs what it catches and the loop goes on; an exception no handler
\* catches leaves the thread function, which ends the thread (std::terminate).
HealthCheckThrows ==
    /\ health.pc = "checking"
    /\ \E e \in TickExceptions :
         /\ model_metrics' \in { model_metrics,
                                 checkVLLMHealth(model_metrics, containers, psOrder) }
         /\ health' = [ pc |-> IF catchesStdException(e) THEN "sleeping" ELSE "terminated",
                        last |-> e ]
    /\ UNCHANGED << env, config, containers, psOrder, pc, to_restart, restarted, resp,
                    optimizeVars, envCacheVars,
                    portQuery, portScan, inRegistry, validate, inserted, telemetryVars >>

NextHealth ==
    \/ HealthSleepEnds
    \/ HealthCheckReturns
    \/ HealthCheckThrows
    \/ ContainerExits

\* The thread is scheduled: sleep_for returns after its 5 seconds, and a tick
\* ends because each command it runs is under timeout (timeout 5 docker ps,
\* timeout 2 curl -m 1).
SpecHealth ==
    /\ InitHealth
    /\ [][NextHealth]_vars
    /\ WF_vars(HealthSleepEnds)
    /\ WF_vars(HealthCheckReturns \/ HealthCheckThrows)

\* ------------------------------------------------------ reconciliation alone
\* POST /optimize served over one running deployment whose record has been
\* fed a ring of samples: short and long rings, rings of zeros, means below,
\* at and above 0.7 of the budgets.
MarkValues == { 0, 30, 66, 67, 70 }
MarkLengths == { 1, 9, 10, 11 }
\* n - 1 samples of one value and a last sample of another.
MarkRings ==
    { [ i \in 1..n |-> IF i < n THEN v ELSE w ] : v, w \in MarkValues, n \in MarkLengths }
\* The budgets a record can carry: a config file's, or one a re-deploy set.
MarkBudgets == { MIN_BUDGET, 30, DEFAULT_GPU_UTIL, 100 }

RECURSIVE recordRing(_, _, _)
\* updateModelVRAMUsage called once for each sample of the ring.
recordRing(mm, container_name, ring) ==
    IF Len(ring) = 0 THEN mm
    ELSE recordRing(recordSample(mm, container_name, Head(ring)), container_name, Tail(ring))

InitMark ==
    /\ env \in EnvFiles
    /\ config \in { ConfigFile(b) : b \in MarkBudgets }
    /\ \E n \in ContainerNames, ring \in MarkRings :
         /\ containers = [ m \in ContainerNames |->
                             IF m = n THEN [ state |-> "running", port |-> DEFAULT_START_PORT ]
                             ELSE NoContainer ]
         /\ psOrder = << n >>
         /\ model_metrics =
                recordRing(registerModelDeployment(<< >>, n,
                                                   getMaxGPUUtilizationFromConfig(config)),
                           n, ring)
    /\ pc = "idle"
    /\ to_restart = << >>
    /\ restarted = << >>
    /\ resp = NoResp
    /\ portQuery = NoPortQuery
    /\ portScan = NotCalled
    /\ inRegistry = NoThreadInside
    /\ health = HealthNotStarted
    /\ validate = NotValidating
    /\ inserted = NothingInserted
    /\ deploy_res = NoDeployRes
    /\ rounds = << >>
    /\ sinceRestart = << >>
    /\ env_loaded = TRUE
    /\ env_cache = EnvCacheOf(env)
    /\ inGetEnv = NobodyInGetEnv
    /\ recorded = << >>
    /\ aggregation = NotCollecting
    /\ snapshot = NoSnapshot
    /\ stream = NotStreaming

NextMark ==
    \/ HandleOptimize
    \/ OptimizeStep
    \/ OptimizeDone
    \/ Respond

SpecMark == InitMark /\ [][NextMark]_vars

\* ------------------------------------------------- deploys over config files
\* Deploy and spindown requests served over the config files an installation
\* can hold: the key at 0.5, at 0.95 or at 1.0, or no file at all.
ConfigFileValues == { 50, DEFAULT_GPU_UTIL, 100 }
ConfigFiles == { ConfigFile(b) : b \in ConfigFileValues } \cup { NoConfigFile }

InitConfig ==
    /\ env \in EnvFiles
    /\ config \in ConfigFiles
    /\ containers = [ n \in ContainerNames |-> NoContainer ]
    /\ psOrder = << >>
    /\ model_metrics = << >>
    /\ pc = "idle"
    /\ to_restart = << >>
    /\ restarted = << >>
    /\ resp = NoResp
    /\ portQuery = NoPortQuery
    /\ portScan = NotCalled
    /\ inRegistry = NoThreadInside
    /\ health = HealthNotStarted
    /\ validate = NotValidating
    /\ inserted = NothingInserted
    /\ deploy_res = NoDeployRes
    /\ rounds = << >>
    /\ sinceRestart = << >>
    /\ env_loaded = TRUE
    /\ env_cache = EnvCacheOf(env)
    /\ inGetEnv = NobodyInGetEnv
    /\ recorded = << >>
    /\ aggregation = NotCollecting
    /\ snapshot = NoSnapshot
    /\ stream = NotStreaming

NextConfig ==
    \/ HandleDeploy
    \/ HandleSpindown
    \/ Respond

SpecConfig == InitConfig /\ [][NextConfig]_vars

\* ------------------------------------------------- validateHFModel alone
\* validateHFModel called once, over a remote registry that answers each id
\* the same way throughout the call: one step for the GET of the model, one
\* for the search and the nested call it leads to.
ValidateIds == { << "a" >>, << "a", "/", "b" >>, << "a", "-", "b" >> }
\* What GET /api/models/<id> answers: curl failed or printed HTTP 000, 200
\* with an "id" field, 200 without one, 404, any other status.
LookupAnswers == { "000", "200", "200 no id", "404", "500" }
\* What searchHFModel returns: the first "id" of the search result, or "".
SearchAnswers == ValidateIds \cup { << >> }

ModelInfo(valid, id, error) == [ valid |-> valid, id |-> id, error |-> error ]

\* The call under way: the model_id of the innermost call, how many nested
\* calls were made, and the registry it talks to.
Validating(pc_, model_id, depth, info, lookup, search) ==
    [ pc |-> pc_, model_id |-> model_id, depth |-> depth, info |-> info,
      lookup |-> lookup, search |-> search ]

InitValidate ==
    /\ env \in { e \in EnvFiles : e.HF_TOKEN }
    /\ config \in { ConfigFile(b) : b \in ConfigBudgets }
    /\ containers = [ n \in ContainerNames |-> NoContainer ]
    /\ psOrder = << >>
    /\ model_metrics = << >>
    /\ pc = "idle"
    /\ to_restart = << >>
    /\ restarted = << >>
    /\ resp = NoResp
    /\ portQuery = NoPortQuery
    /\ portScan = NotCalled
    /\ inRegistry = NoThreadInside
    /\ health = HealthNotStarted
    /\ \E model_id \in ValidateIds, lookup \in [ ValidateIds -> LookupAnswers ],
          search \in [ ValidateIds -> SearchAnswers ] :
         validate = Validating("called", model_id, 0, ModelInfo(FALSE, << >>, "none"),
                               lookup, search)
    /\ inserted = NothingInserted
    /\ deploy_res = NoDeployRes
    /\ rounds = << >>
    /\ sinceRestart = << >>
    /\ env_loaded = TRUE
    /\ env_cache = EnvCacheOf(env)
    /\ inGetEnv = NobodyInGetEnv
    /\ recorded = << >>
    /\ aggregation = NotCollecting
    /\ snapshot = NoSnapshot
    /\ stream = NotStreaming

\* validateHFModel up to the tests of http_code: the GET of the model.  A
\* failed request and a status other than 200 and 404 return not valid; 200
\* with an id returns valid; 404 and 200 without an id go on to the search.
ValidateLookup ==
    /\ validate.pc = "called"
    /\ LET model_id == validate.model_id
           answer == validate.lookup[model_id]
       IN  validate' =
             CASE answer = "000" ->
                      [ validate EXCEPT !.pc = "returned",
                                        !.info = ModelInfo(FALSE, model_id,
                                                     "Failed to connect to HuggingFace API") ]
               [] answer = "500" ->
                      [ validate EXCEPT !.pc = "returned",
                                        !.info = ModelInfo(FALSE, model_id,
                                                     "API request failed") ]
               [] answer = "200" ->
                      [ validate EXCEPT !.pc = "returned",
                                        !.info = ModelInfo(TRUE, model_id, "none") ]
               [] OTHER ->
                      [ validate EXCEPT !.pc = "search" ]
    /\ UNCHANGED << lifecycleVars, portQuery, portScan, inRegistry, health, inserted, telemetryVars >>

\* found_id = searchHFModel(model_id, hf_token): an empty answer returns
\* "Model not found"; any other is validated by a nested call, whose result
\* is returned.
ValidateSearch ==
    /\ validate.pc = "search"
    /\ validate.depth < MaxValidateDepth
    /\ LET found_id == validate.search[validate.model_id]
       IN  validate' =
             IF Len(found_id) = 0
             THEN [ validate EXCEPT !.pc = "returned",
                                    !.info = ModelInfo(FALSE, validate.model_id,
                                                       "Model not found") ]
             ELSE [ validate EXCEPT !.pc = "called", !.model_id = found_id,
                                    !.depth = validate.depth + 1 ]
    /\ UNCHANGED << lifecycleVars, portQuery, portScan, inRegistry, health, inserted, telemetryVars >>

NextValidate ==
    \/ ValidateLookup
    \/ ValidateSearch

SpecValidate == InitValidate /\ [][NextValidate]_vars

\* ------------------------------------------------------------ the ring alone
\* updateModelVRAMUsage called again and again for one running deployment,
\* past the 100 samples the ring holds, with every sample pushed kept in
\* inserted.  The probe reports a base value and, once in the life of a
\* record, a spike above it.
RingContainer == getContainerName(<< "a" >>)
\* A second container, which runs but has no record: its record was pruned
\* while it was not yet running.
RingOther == getContainerName(<< "a", "/", "b" >>)
RingBase == { 30 }
RingSpike == { 60 }

InitRing ==
    /\ env \in EnvFiles
    /\ config \in { ConfigFile(b) : b \in ConfigBudgets }
    /\ containers = [ n \in ContainerNames |->
                        IF n = RingContainer
                        THEN [ state |-> "running", port |-> DEFAULT_START_PORT ]
                        ELSE IF n = RingOther
                        THEN [ state |-> "running", port |-> DEFAULT_START_PORT + 1 ]
                        ELSE NoContainer ]
    /\ psOrder = << RingOther, RingContainer >>
    /\ model_metrics = registerModelDeployment(<< >>, RingContainer,
                                               getMaxGPUUtilizationFromConfig(config))
    /\ pc = "idle"
    /\ to_restart = << >>
    /\ restarted = << >>
    /\ resp = NoResp
    /\ portQuery = NoPortQuery
    /\ portScan = NotCalled
    /\ inRegistry = NoThreadInside
    /\ health = HealthNotStarted
    /\ validate = NotValidating
    /\ inserted = NothingInserted
    /\ deploy_res = NoDeployRes
    /\ rounds = << >>
    /\ sinceRestart = << >>
    /\ env_loaded = TRUE
    /\ env_cache = EnvCacheOf(env)
    /\ inGetEnv = NobodyInGetEnv
    /\ recorded = << >>
    /\ aggregation = NotCollecting
    /\ snapshot = NoSnapshot
    /\ stream = NotStreaming

\* One iteration of the stream loop: updateModelVRAMUsage(container_name,
\* vram_percent) for each running container, the one without a record first.
RingRecord ==
    /\ Len(recorded) < MaxRecorded
    /\ \E vram_percent \in RingBase \cup { v \in RingSpike : v \notin inserted } :
         /\ model_metrics' =
                updateModelVRAMUsage(
                    updateModelVRAMUsage(model_metrics, containers, psOrder,
                                         RingOther, vram_percent),
                    containers, psOrder, RingContainer, vram_percent)
         /\ inserted' = IF RingContainer \in DOMAIN model_metrics'
                        THEN inserted \cup { vram_percent } ELSE inserted
         /\ recorded' = IF RingContainer \in DOMAIN model_metrics'
                        THEN Append(recorded, vram_percent) ELSE recorded
    /\ UNCHANGED << lifecycleVarsButRegistry, portQuery, portScan, inRegistry, health, validate, aggregation, snapshot, stream >>

\* registerModelDeployment for the same container, at the end of a deploy of
\* the same model that is answered with success: a new record, whose ring is
\* empty.
RingRegister ==
    /\ Len(model_metrics[RingContainer].vram_samples) > 0
    /\ model_metrics' = registerModelDeployment(model_metrics, RingContainer,
                                                getMaxGPUUtilizationFromConfig(config))
    /\ inserted' = NothingInserted
    /\ recorded' = << >>
    /\ resp' = HttpResponse("deploy", << "a" >>, HTTP_OK, "success")
    /\ UNCHANGED << env, config, containers, psOrder, pc, to_restart, restarted, portQuery, portScan, inRegistry, health, validate, aggregation, snapshot, stream, optimizeVars, envCacheVars >>

NextRing ==
    \/ RingRecord
    \/ RingRegister

SpecRing == InitRing /\ [][NextRing]_vars

\* ------------------------------------------------------ GET /vram/aggregated
\* handleRequest for a target that begins with /vram/aggregated, and the loop
\* of collectAggregatedMetrics, one iteration per step.  The steady clock is
\* counted in sample intervals of 500 ms from the start of the collection;
\* a probe takes a number of whole intervals, the sleep at least one.
INT_MAX == 2147483647
DEFAULT_WINDOW == 5
MIN_WINDOW == 1
MAX_WINDOW == 60
max_samples == 100
IntervalsPerSecond == 2

TargetNoQuery == << "/", "v", "r", "a", "m", "/", "a", "g", "g", "r", "e", "g", "a", "t", "e", "d" >>
TargetWindowZero == << "/", "v", "r", "a", "m", "/", "a", "g", "g", "r", "e", "g", "a", "t", "e", "d", "?", "w", "i", "n", "d", "o", "w", "=", "0" >>
AggregatedTargets ==
    { TargetNoQuery, TargetWindowZero,
      << "/", "v", "r", "a", "m", "/", "a", "g", "g", "r", "e", "g", "a", "t", "e", "d", "?", "w", "i", "n", "d", "o", "w", "=", "2" >>,
      << "/", "v", "r", "a", "m", "/", "a", "g", "g", "r", "e", "g", "a", "t", "e", "d", "?", "w", "i", "n", "d", "o", "w", "=", "6", "0" >>,
      << "/", "v", "r", "a", "m", "/", "a", "g", "g", "r", "e", "g", "a", "t", "e", "d", "?", "w", "i", "n", "d", "o", "w", "=", "9", "9" >>,
      << "/", "v", "r", "a", "m", "/", "a", "g", "g", "r", "e", "g", "a", "t", "e", "d", "?", "w", "i", "n", "d", "o", "w", "=", "-", "3" >>,
      << "/", "v", "r", "a", "m", "/", "a", "g", "g", "r", "e", "g", "a", "t", "e", "d", "?", "w", "i", "n", "d", "o", "w", "=", "x", "&", "w", "i", "n", "d", "o", "w", "=", "7" >>,
      << "/", "v", "r", "a", "m", "/", "a", "g", "g", "r", "e", "g", "a", "t", "e", "d", "?", "w", "i", "n", "d", "o", "w", "=", "9", "9", "9", "9", "9", "9", "9", "9", "9", "9", "9" >> }
\* The intervals getDetailedVRAMUsage and fetchPerModelBlockData take together,
\* and the intervals sleep_for(sample_interval) takes.
ProbeIntervals == { 0, 1, 7 }
SleepIntervals == { 1, 2 }

IsDigit(c) == c \in { DigitChars[k] : k \in 1..10 }
WindowKey == << "w", "i", "n", "d", "o", "w", "=" >>

\* std::regex_search(query_str, match, window=(\d+)): the digits of the first
\* "window=" that a digit follows, << >> when there is no match.
windowMatch(query_str) ==
    LET hits == { i \in 1..(Len(query_str) - Len(WindowKey)) :
                    /\ SubSeq(query_str, i, i + Len(WindowKey) - 1) = WindowKey
                    /\ IsDigit(query_str[i + Len(WindowKey)]) }
    IN  IF hits = {} THEN << >>
        ELSE LET first == (CHOOSE i \in hits : \A j \in hits : i <= j) + Len(WindowKey)
                 stop  == CHOOSE e \in first..Len(query_str) :
                              /\ \A k \in first..e : IsDigit(query_str[k])
                              /\ e = Len(query_str) \/ ~IsDigit(query_str[e + 1])
             IN  SubSeq(query_str, first, stop)

RECURSIVE stoiOutOfRange(_, _, _)
\* std::stoi throws std::out_of_range: the digits read so far pass INT_MAX.
stoiOutOfRange(digits, i, acc) ==
    IF i > Len(digits) THEN FALSE
    ELSE IF acc > (INT_MAX - DigitValue(digits[i])) \div 10 THEN TRUE
    ELSE stoiOutOfRange(digits, i + 1, acc * 10 + DigitValue(digits[i]))

\* A variant of clampWindow without the lower limit.
clampWindowAbove(window_seconds) ==
    IF window_seconds > MAX_WINDOW THEN MAX_WINDOW ELSE window_seconds

\* if (window_seconds < 1) window_seconds = 1; if (window_seconds > 60) window_seconds = 60;
clampWindow(window_seconds) ==
    IF window_seconds < MIN_WINDOW THEN MIN_WINDOW
    ELSE IF window_seconds > MAX_WINDOW THEN MAX_WINDOW
    ELSE window_seconds

\* The window handleRequest passes to collectAggregatedMetrics.
parseWindow(target) ==
    LET query_pos == Find(target, << "?" >>)
        query_str == SubSeq(target, query_pos + 1, Len(target))
        digits    == windowMatch(query_str)
    IN  IF query_pos = 0 \/ digits = << >> THEN DEFAULT_WINDOW
        ELSE IF stoiOutOfRange(digits, 1, 0) THEN DEFAULT_WINDOW
        ELSE clampWindow(stoi(digits))

Collecting(pc_, target, window_seconds, now, end_time, sample_count) ==
    [ pc |-> pc_, target |-> target, window_seconds |-> window_seconds,
      now |-> now, end_time |-> end_time, sample_count |-> sample_count ]

InitCollect ==
    /\ env \in EnvFiles
    /\ config \in { ConfigFile(b) : b \in ConfigBudgets }
    /\ containers = [ n \in ContainerNames |-> NoContainer ]
    /\ psOrder = << >>
    /\ model_metrics = << >>
    /\ pc = "idle"
    /\ to_restart = << >>
    /\ restarted = << >>
    /\ resp = NoResp
    /\ portQuery = NoPortQuery
    /\ portScan = NotCalled
    /\ inRegistry = NoThreadInside
    /\ health = HealthNotStarted
    /\ validate = NotValidating
    /\ inserted = NothingInserted
    /\ deploy_res = NoDeployRes
    /\ rounds = << >>
    /\ sinceRestart = << >>
    /\ env_loaded = TRUE
    /\ env_cache = EnvCacheOf(env)
    /\ inGetEnv = NobodyInGetEnv
    /\ recorded = << >>
    /\ aggregation = NotCollecting
    /\ snapshot = NoSnapshot
    /\ stream = NotStreaming

\* handleRequest: the window is read from the target, the collection starts.
CollectRequest ==
    /\ aggregation.pc = "none"
    /\ \E target \in AggregatedTargets :
         LET window_seconds == parseWindow(target)
         IN  aggregation' = Collecting("loop", target, window_seconds, 0,
                                       window_seconds * IntervalsPerSecond, 0)
    /\ UNCHANGED << lifecycleVars, portQuery, portScan, inRegistry,
                    health, validate, inserted, recorded, snapshot, stream >>

\* One iteration of the while loop: the probes, sample_count++, and the
\* sleep when the window has not elapsed.
CollectSample ==
    /\ aggregation.pc = "loop"
    /\ aggregation.now < aggregation.end_time
    /\ aggregation.sample_count < max_samples
    /\ \E probe \in ProbeIntervals, sleep \in SleepIntervals :
         LET probed == aggregation.now + probe
         IN  aggregation' = [ aggregation EXCEPT
                 !.sample_count = @ + 1,
                 !.now = IF probed < aggregation.end_time THEN probed + sleep ELSE probed ]
    /\ UNCHANGED << lifecycleVars, portQuery, portScan, inRegistry,
                    health, validate, inserted, recorded, snapshot, stream >>

\* The loop test fails: result.sample_count = sample_count.
CollectReturn ==
    /\ aggregation.pc = "loop"
    /\ ~ ( aggregation.now < aggregation.end_time
           /\ aggregation.sample_count < max_samples )
    /\ aggregation' = [ aggregation EXCEPT !.pc = "done" ]
    /\ UNCHANGED << lifecycleVars, portQuery, portScan, inRegistry,
                    health, validate, inserted, recorded, snapshot, stream >>

\* The response is written; the accept loop takes the next request.
CollectRespond ==
    /\ aggregation.pc = "done"
    /\ aggregation' = NotCollecting
    /\ UNCHANGED << lifecycleVars, portQuery, portScan, inRegistry,
                    health, validate, inserted, recorded, snapshot, stream >>

NextCollect ==
    \/ CollectRequest
    \/ CollectSample
    \/ CollectReturn
    \/ CollectRespond

\* The thread that runs the loop is not starved and its probes return.
SpecCollect ==
    InitCollect /\ [][NextCollect]_vars /\ WF_vars(CollectSample \/ CollectReturn)

\* ------------------------------------------------- getDetailedVRAMUsage alone
\* The per-model part of getDetailedVRAMUsage over what its probes report: the
\* used memory of the device, and for each running model the block data of
\* fetchPerModelBlockData and the memory of the GPU processes matched to its
\* container (0 when none was matched).  Fractions are kept in percent;
\* the conversions of a double to an integer truncate.
DEFAULT_BLOCK_SIZE == 16384

ModelBlockData(num_gpu_blocks, kv_cache_usage_perc, model_memory) ==
    [ available |-> num_gpu_blocks > 0,
      num_gpu_blocks |-> num_gpu_blocks,
      block_size |-> IF num_gpu_blocks > 0 THEN DEFAULT_BLOCK_SIZE ELSE 0,
      kv_cache_usage_perc |-> IF num_gpu_blocks > 0 THEN kv_cache_usage_perc ELSE 0,
      model_memory |-> model_memory ]
ProbedBlocks == { 0, 2 }
ProbedKvUsage == { 0, 50, 100 }
ProbedProcessMemory == { 0, 20000 }
ProbedDeviceUsed == { 0, 10000, 30000, 60000 }
ProbedModels ==
    { ModelBlockData(b, u, m) : b \in ProbedBlocks, u \in ProbedKvUsage, m \in ProbedProcessMemory }

Min(a, b) == IF a < b THEN a ELSE b

\* The loop over models_data: allocated_vram_bytes and used_kv_cache_bytes of
\* one model.
modelInfo(model_data) ==
    IF model_data.available /\ model_data.num_gpu_blocks > 0
    THEN LET model_allocated_vram == model_data.model_memory
             from_memory == IF model_allocated_vram > 0
                            THEN model_allocated_vram \div model_data.num_gpu_blocks
                            ELSE model_data.block_size
             calculated_block_size == IF from_memory = 0 THEN DEFAULT_BLOCK_SIZE ELSE from_memory
             model_used_kv_bytes ==
                 (model_data.num_gpu_blocks * calculated_block_size
                    * model_data.kv_cache_usage_perc) \div 100
         IN  [ allocated_vram_bytes |-> model_allocated_vram,
               used_kv_cache_bytes |-> IF model_allocated_vram > 0
                                       THEN Min(model_used_kv_bytes, model_allocated_vram)
                                       ELSE model_used_kv_bytes ]
    ELSE [ allocated_vram_bytes |-> 0, used_kv_cache_bytes |-> 0 ]

\* The end of getDetailedVRAMUsage: when less than half of the used memory
\* was matched, the rest goes to the models, in proportion to their used KV
\* cache bytes or, when there are none, evenly.
distributeRemaining(models, used) ==
    LET total_allocated_vram_matched == Sum([ i \in 1..Len(models) |-> models[i].allocated_vram_bytes ])
        total_used_kv_cache_bytes == Sum([ i \in 1..Len(models) |-> models[i].used_kv_cache_bytes ])
        remaining_vram == used - total_allocated_vram_matched
    IN  IF used > 0 /\ 2 * total_allocated_vram_matched < used
        THEN IF total_used_kv_cache_bytes > 0
             THEN [ i \in 1..Len(models) |->
                      IF models[i].used_kv_cache_bytes > 0
                      THEN [ models[i] EXCEPT !.allocated_vram_bytes =
                               @ + (remaining_vram * models[i].used_kv_cache_bytes)
                                     \div total_used_kv_cache_bytes ]
                      ELSE models[i] ]
             ELSE [ i \in 1..Len(models) |->
                      [ models[i] EXCEPT !.allocated_vram_bytes =
                          @ + remaining_vram \div Len(models) ] ]
        ELSE models

detailedModels(models_data, used) ==
    distributeRemaining([ i \in 1..Len(models_data) |-> modelInfo(models_data[i]) ], used)

\* The device reports at least the memory of its processes, or nothing at
\* all when nvmlDeviceGetMemoryInfo fails.
InitSnapshot ==
    /\ env \in EnvFiles
    /\ config \in { ConfigFile(b) : b \in ConfigBudgets }
    /\ containers = [ n \in ContainerNames |-> NoContainer ]
    /\ psOrder = << >>
    /\ model_metrics = << >>
    /\ pc = "idle"
    /\ to_restart = << >>
    /\ restarted = << >>
    /\ resp = NoResp
    /\ portQuery = NoPortQuery
    /\ portScan = NotCalled
    /\ inRegistry = NoThreadInside
    /\ health = HealthNotStarted
    /\ validate = NotValidating
    /\ inserted = NothingInserted
    /\ deploy_res = NoDeployRes
    /\ rounds = << >>
    /\ sinceRestart = << >>
    /\ env_loaded = TRUE
    /\ env_cache = EnvCacheOf(env)
    /\ inGetEnv = NobodyInGetEnv
    /\ recorded = << >>
    /\ aggregation = NotCollecting
    /\ \E used \in ProbedDeviceUsed, a, b \in ProbedModels :
         /\ used = 0 \/ used >= a.model_memory + b.model_memory
         /\ snapshot = [ pc |-> "called", used |-> used, models_data |-> << a, b >>,
                         models |-> << >> ]
    /\ stream = NotStreaming

\* getDetailedVRAMUsage returns.
SnapshotReturns ==
    /\ snapshot.pc = "called"
    /\ snapshot' = [ snapshot EXCEPT !.pc = "done",
                       !.models = detailedModels(snapshot.models_data, snapshot.used) ]
    /\ UNCHANGED << lifecycleVars, portQuery, portScan, inRegistry,
                    health, validate, inserted, recorded, aggregation, stream >>

NextSnapshot == SnapshotReturns

SpecSnapshot == InitSnapshot /\ [][NextSnapshot]_vars

\* --------------------------------------------- calculateStats and percentiles
\* calculateStats and calculatePercentile over sample sequences, in binary
\* floating point: a double is kept as a multiple of 2^-FloatScale with
\* FloatBits significant bits, and every sum, difference, product and quotient
\* is rounded to the nearest such value, ties to even, as the operations on
\* double round to 53 bits.
FloatBits == 12
FloatScale == 12

RECURSIVE Pow2(_)
Pow2(n) == IF n = 0 THEN 1 ELSE 2 * Pow2(n - 1)
RECURSIVE BitLength(_)
BitLength(v) == IF v = 0 THEN 0 ELSE 1 + BitLength(v \div 2)
DoubleOne == Pow2(FloatScale)

\* The double nearest to num / den, in units of 2^-FloatScale.
RoundToDouble(num, den) ==
    LET over  == BitLength(num \div den) - FloatBits
        shift == IF over > 0 THEN over ELSE 0
        unit  == den * Pow2(shift)
        m     == num \div unit
        r     == num % unit
    IN  (IF 2 * r > unit \/ (2 * r = unit /\ m % 2 = 1) THEN m + 1 ELSE m) * Pow2(shift)

\* A decimal literal or an integer converted to double.
ToDouble(num, den) == RoundToDouble(num * DoubleOne, den)
DoubleAdd(a, b) == RoundToDouble(a + b, 1)
DoubleSub(a, b) == RoundToDouble(a - b, 1)
DoubleMul(a, b) == RoundToDouble(a * b, DoubleOne)
\* a / n for an unsigned count n
DoubleDivCount(a, n) == RoundToDouble(a, n)

calculatePercentile(sorted_values, percentile) ==
    IF Len(sorted_values) = 0 THEN 0
    ELSE IF Len(sorted_values) = 1 THEN sorted_values[1]
    ELSE LET index == DoubleMul(percentile, ToDouble(Len(sorted_values) - 1, 1))
             lower == index \div DoubleOne
             upper == IF index % DoubleOne = 0 THEN lower ELSE lower + 1
             weight == DoubleSub(index, ToDouble(lower, 1))
         IN  IF lower = upper THEN sorted_values[lower + 1]
             ELSE DoubleAdd(DoubleMul(sorted_values[lower + 1], DoubleSub(DoubleOne, weight)),
                            DoubleMul(sorted_values[upper + 1], weight))

RECURSIVE sumOf(_, _)
\* for (double v : values) sum += v;
sumOf(values, sum) ==
    IF Len(values) = 0 THEN sum ELSE sumOf(Tail(values), DoubleAdd(sum, Head(values)))

P95 == ToDouble(95, 100)
P99 == ToDouble(99, 100)

AggregatedStats(min, max, avg, p95, p99, count) ==
    [ min |-> min, max |-> max, avg |-> avg, p95 |-> p95, p99 |-> p99, count |-> count ]

calculateStats(values) ==
    IF Len(values) = 0 THEN AggregatedStats(0, 0, 0, 0, 0, 0)
    ELSE LET sorted == SortSeq(values, LAMBDA a, b : a < b)
         IN  AggregatedStats(sorted[1], sorted[Len(sorted)],
                             DoubleDivCount(sumOf(values, 0), Len(values)),
                             calculatePercentile(sorted, P95),
                             calculatePercentile(sorted, P99),
                             Len(values))

\* The sample sequences: up to three samples of a few values, and 1..10.
StatsValues == { ToDouble(85, 100), ToDouble(1, 1), ToDouble(11, 10), ToDouble(3, 1) }
OneToTen == [ i \in 1..10 |-> ToDouble(i, 1) ]
StatsSamples ==
    { OneToTen } \cup UNION { [ 1..n -> StatsValues ] : n \in 0..3 }
IsSorted(values) == \A i \in 1..(Len(values) - 1) : values[i] <= values[i + 1]
Percentiles == { 0, ToDouble(1, 2), P95, P99, DoubleOne }

InitStats ==
    /\ env \in EnvFiles
    /\ config \in { ConfigFile(b) : b \in ConfigBudgets }
    /\ containers = [ n \in ContainerNames |-> NoContainer ]
    /\ psOrder = << >>
    /\ model_metrics = << >>
    /\ pc = "idle"
    /\ to_restart = << >>
    /\ restarted = << >>
    /\ resp = NoResp
    /\ portQuery = NoPortQuery
    /\ portScan = NotCalled
    /\ inRegistry = NoThreadInside
    /\ health = HealthNotStarted
    /\ validate = NotValidating
    /\ inserted = NothingInserted
    /\ deploy_res = NoDeployRes
    /\ rounds = << >>
    /\ sinceRestart = << >>
    /\ env_loaded = TRUE
    /\ env_cache = EnvCacheOf(env)
    /\ inGetEnv = NobodyInGetEnv
    /\ recorded = << >>
    /\ \E values \in StatsSamples : aggregation = [ pc |-> "samples", values |-> values ]
    /\ snapshot = NoSnapshot
    /\ stream = NotStreaming

\* collectAggregatedMetrics: calculateStats(samples) of one metric.
CalculateStats ==
    /\ aggregation.pc = "samples"
    /\ aggregation' = [ pc |-> "stats", values |-> aggregation.values,
                          stats |-> calculateStats(aggregation.values) ]
    /\ UNCHANGED << lifecycleVars, portQuery, portScan, inRegistry,
                    health, validate, inserted, recorded, snapshot, stream >>

\* calculatePercentile(sorted_values, percentile) on a sorted, non-empty
\* sequence.
CalculatePercentile ==
    /\ aggregation.pc = "samples"
    /\ Len(aggregation.values) >= 1
    /\ IsSorted(aggregation.values)
    /\ \E percentile \in Percentiles :
         aggregation' = [ pc |-> "percentile", values |-> aggregation.values,
                          percentile |-> percentile,
                          result |-> calculatePercentile(aggregation.values, percentile) ]
    /\ UNCHANGED << lifecycleVars, portQuery, portScan, inRegistry,
                    health, validate, inserted, recorded, snapshot, stream >>

NextStats ==
    \/ CalculateStats
    \/ CalculatePercentile

SpecStats == InitStats /\ [][NextStats]_vars

\* -------------------------------------------------- the container name alone
\* getContainerName over model ids of alphanumeric and other characters, the
\* empty id and an id that begins with the prefix itself; then the two ways
\* the program comes back to a name: deriving the name of a name, and deriving
\* the name of the id read back from a name (name.substr(5)).
NameChars == { "a", "Z", "9", "/", "-", "_", "." }
NameIds ==
    { << "v", "l", "l", "m", "-", "a" >> } \cup UNION { [ 1..n -> NameChars ] : n \in 0..2 }

InitName ==
    /\ env \in EnvFiles
    /\ config \in { ConfigFile(b) : b \in ConfigBudgets }
    /\ containers = [ n \in ContainerNames |-> NoContainer ]
    /\ psOrder = << >>
    /\ model_metrics = << >>
    /\ pc = "idle"
    /\ to_restart = << >>
    /\ restarted = << >>
    /\ resp = NoResp
    /\ portQuery = NoPortQuery
    /\ portScan = NotCalled
    /\ inRegistry = NoThreadInside
    /\ health = HealthNotStarted
    /\ \E model_id \in NameIds : validate = [ pc |-> "validated", model_id |-> model_id ]
    /\ inserted = NothingInserted
    /\ deploy_res = NoDeployRes
    /\ rounds = << >>
    /\ sinceRestart = << >>
    /\ env_loaded = TRUE
    /\ env_cache = EnvCacheOf(env)
    /\ inGetEnv = NobodyInGetEnv
    /\ recorded = << >>
    /\ aggregation = NotCollecting
    /\ snapshot = NoSnapshot
    /\ stream = NotStreaming

\* deployHFModel: container_name = getContainerName(validated_model_id).
NameDerive ==
    /\ validate.pc = "validated"
    /\ validate' = [ pc |-> "named", model_id |-> validate.model_id,
                       container_name |-> getContainerName(validate.model_id) ]
    /\ UNCHANGED << lifecycleVars, portQuery, portScan, inRegistry, health, inserted, telemetryVars >>

\* The name is given where a model id is expected: getContainerName of the
\* name itself, and of the model id handleOptimizeRequest reads back from it.
NameDeriveAgain ==
    /\ validate.pc = "named"
    /\ validate' = [ pc |-> "renamed", model_id |-> validate.model_id,
                       container_name |-> validate.container_name,
                       of_name |-> getContainerName(validate.container_name),
                       of_read_back |-> getContainerName(NameToModelId(validate.container_name)) ]
    /\ UNCHANGED << lifecycleVars, portQuery, portScan, inRegistry, health, inserted, telemetryVars >>

NextName ==
    \/ NameDerive
    \/ NameDeriveAgain

SpecName == InitName /\ [][NextName]_vars

\* --------------------------------------------------------- GET /vram/stream
\* acceptConnections serving /vram/stream requests: handleStreamingRequest
\* writes the headers and then one event per iteration of its loop, until a
\* probe or a write throws.  An exception is a boost::system::system_error
\* with its code, another std::exception with its what(), or something that
\* is no std::exception.
SystemError(code, system_category) ==
    [ type |-> "system_error", code |-> code, system_category |-> system_category, what |-> code ]
StdException(what) ==
    [ type |-> "std::exception", code |-> "none", system_category |-> FALSE, what |-> what ]
NonStdException ==
    [ type |-> "non-std", code |-> "none", system_category |-> FALSE, what |-> "none" ]
NoException ==
    [ type |-> "none", code |-> "none", system_category |-> FALSE, what |-> "none" ]

\* What http::write throws when the peer is gone, and what it throws otherwise.
DisconnectErrors ==
    { SystemError("broken_pipe", TRUE), SystemError("connection_reset", TRUE),
      SystemError("eof", FALSE), SystemError("end_of_stream", FALSE) }
WriteErrors ==
    DisconnectErrors \cup { SystemError("operation_aborted", TRUE), SystemError("timed_out", TRUE),
                            SystemError("partial_message", FALSE) }
\* What the probes and the serializer of an iteration throw.
ProbeErrors ==
    { StdException("std::bad_alloc"), StdException("Connection reset by peer"),
      StdException("std::out_of_range"), NonStdException }

\* The test of the inner catch (const boost::system::system_error&).
closedByClientCode(e) ==
    \/ e.code \in { "broken_pipe", "connection_reset", "eof", "end_of_stream", "operation_aborted" }
    \/ e.system_category
\* The test of the inner catch (const std::exception&); err_msg.find on the
\* messages of ProbeErrors.
closedByClientWhat(e) == e.what \in { "Connection reset by peer" }

\* A variant of innerCatch that goes on with the loop after an error that is
\* no disconnect.
innerCatchContinues(e) ==
    IF e.type = "system_error" THEN (IF closedByClientCode(e) THEN "break" ELSE "continue")
    ELSE IF e.type = "std::exception" THEN (IF closedByClientWhat(e) THEN "break" ELSE "continue")
    ELSE "continue"

\* The three catch clauses inside the loop: each of them ends in break.
innerCatch(e) ==
    IF e.type = "system_error" THEN (IF closedByClientCode(e) THEN "break" ELSE "break")
    ELSE IF e.type = "std::exception" THEN (IF closedByClientWhat(e) THEN "break" ELSE "break")
    ELSE "break"

\* The catch clauses around the body of handleStreamingRequest:
\* catch (const std::exception&) and catch (...).
outerCatch(e) ==
    IF e.type \in { "system_error", "std::exception" } THEN "return" ELSE "return"

\* The catch clauses of acceptConnections: continue, or a message and the
\* next turn of while (true).
acceptCatch(e) ==
    IF e.type = "system_error" THEN (IF closedByClientCode(e) THEN "continue" ELSE "next")
    ELSE IF e.type = "std::exception" THEN (IF closedByClientWhat(e) THEN "continue" ELSE "next")
    ELSE "continue"

Streaming(pc_, iteration, events, error, escaped) ==
    [ pc |-> pc_, iteration |-> iteration, events |-> events, error |-> error, escaped |-> escaped ]

InitStream ==
    /\ env \in EnvFiles
    /\ config \in { ConfigFile(b) : b \in ConfigBudgets }
    /\ containers = [ n \in ContainerNames |-> NoContainer ]
    /\ psOrder = << >>
    /\ model_metrics = << >>
    /\ pc = "idle"
    /\ to_restart = << >>
    /\ restarted = << >>
    /\ resp = NoResp
    /\ portQuery = NoPortQuery
    /\ portScan = NotCalled
    /\ inRegistry = NoThreadInside
    /\ health = HealthNotStarted
    /\ validate = NotValidating
    /\ inserted = NothingInserted
    /\ deploy_res = NoDeployRes
    /\ rounds = << >>
    /\ sinceRestart = << >>
    /\ env_loaded = TRUE
    /\ env_cache = EnvCacheOf(env)
    /\ inGetEnv = NobodyInGetEnv
    /\ recorded = << >>
    /\ aggregation = NotCollecting
    /\ snapshot = NoSnapshot
    /\ stream = Streaming("accepting", 0, 0, NoException, FALSE)

\* acceptConnections: accept, read, handleRequest for GET /vram/stream.
StreamAccept ==
    /\ stream.pc = "accepting"
    /\ stream' = Streaming("headers", 0, 0, NoException, FALSE)
    /\ UNCHANGED << lifecycleVars, portQuery, portScan, inRegistry,
                    health, validate, inserted, recorded, aggregation, snapshot >>

\* http::write of the SSE headers: done, or an exception that only the outer
\* catch clauses cover.
StreamHeaders ==
    /\ stream.pc = "headers"
    /\ \/ stream' = [ stream EXCEPT !.pc = "loop" ]
       \/ \E e \in WriteErrors :
             stream' = [ stream EXCEPT !.error = e,
                                       !.pc = IF outerCatch(e) = "return" THEN "returned"
                                              ELSE IF acceptCatch(e) \in { "continue", "next" }
                                              THEN "accepting" ELSE "stopped",
                                       !.escaped = outerCatch(e) # "return" ]
    /\ UNCHANGED << lifecycleVars, portQuery, portScan, inRegistry,
                    health, validate, inserted, recorded, aggregation, snapshot >>

\* An iteration that writes its event and sleeps.
StreamEvent ==
    /\ stream.pc = "loop"
    /\ stream.iteration < MaxStreamIterations
    /\ stream' = [ stream EXCEPT !.iteration = @ + 1, !.events = @ + 1 ]
    /\ UNCHANGED << lifecycleVars, portQuery, portScan, inRegistry,
                    health, validate, inserted, recorded, aggregation, snapshot >>

\* An iteration in which a probe or the write of the event throws.
StreamThrows ==
    /\ stream.pc = "loop"
    /\ \E e \in WriteErrors \cup ProbeErrors :
         stream' = [ stream EXCEPT !.iteration = @ + 1,
                                   !.error = e,
                                   !.pc = IF innerCatch(e) = "break" THEN "returned" ELSE "loop" ]
    /\ UNCHANGED << lifecycleVars, portQuery, portScan, inRegistry,
                    health, validate, inserted, recorded, aggregation, snapshot >>

\* handleStreamingRequest has returned: handleRequest returns and
\* acceptConnections takes the next connection.
StreamServeNext ==
    /\ stream.pc = "returned"
    /\ stream' = [ stream EXCEPT !.pc = "accepting" ]
    /\ UNCHANGED << lifecycleVars, portQuery, portScan, inRegistry,
                    health, validate, inserted, recorded, aggregation, snapshot >>

NextStream ==
    \/ StreamAccept
    \/ StreamHeaders
    \/ StreamEvent
    \/ StreamThrows
    \/ StreamServeNext

SpecStream == InitStream /\ [][NextStream]_vars

\* ------------------------------------------------- optimize after optimize
\* POST /optimize served again and again over the running deployments, with
\* GET /vram/stream recording samples in between.  rounds keeps, for the
\* latest optimize request, the marked containers the loop went through and
\* what each re-deploy answered; sinceRestart counts, for a container an
\* optimize has listed as restarted, the samples recorded for it since.  The
\* config file is there, and the re-deploy gets the clamped peak as its
\* budget, or it is not, and the re-deploy gets the default budget.
OptimizeRingLengths == { 3, MIN_OPT_SAMPLES }
OptimizeRings == { [ i \in 1..n |-> v ] : n \in OptimizeRingLengths, v \in SampleValues }

\* The orders in which the containers of a set can have been started.
StartOrders(names) ==
    { order \in [ 1..Cardinality(names) -> names ] :
          \A i, j \in 1..Cardinality(names) : order[i] = order[j] => i = j }

InitOptimize ==
    /\ env \in EnvFiles
    /\ config \in { ConfigFile(b) : b \in ConfigBudgets } \cup { NoConfigFile }
    /\ \E running \in (SUBSET ContainerNames) \ { { } } :
         /\ Cardinality(running) <= getMaxConcurrentModels(env)
         /\ psOrder \in StartOrders(running)
         /\ containers =
                [ n \in ContainerNames |->
                    IF n \in running
                    THEN [ state |-> "running",
                           port |-> DEFAULT_START_PORT + Len(psOrder)
                                      - (CHOOSE i \in 1..Len(psOrder) : psOrder[i] = n) ]
                    ELSE NoContainer ]
         /\ \E rings \in [ running -> OptimizeRings ] :
                model_metrics =
                    [ n \in running |->
                        recordRing(registerModelDeployment(
                                       << >>, n, getMaxGPUUtilizationFromConfig(config)),
                                   n, rings[n])[n] ]
    /\ pc = "idle"
    /\ to_restart = << >>
    /\ restarted = << >>
    /\ resp = NoResp
    /\ portQuery = NoPortQuery
    /\ portScan = NotCalled
    /\ inRegistry = NoThreadInside
    /\ health = HealthNotStarted
    /\ validate = NotValidating
    /\ inserted = NothingInserted
    /\ deploy_res = NoDeployRes
    /\ rounds = << >>
    /\ sinceRestart = << >>
    /\ env_loaded = TRUE
    /\ env_cache = EnvCacheOf(env)
    /\ inGetEnv = NobodyInGetEnv
    /\ recorded = << >>
    /\ aggregation = NotCollecting
    /\ snapshot = NoSnapshot
    /\ stream = NotStreaming

\* handleOptimizeRequest up to the loop; the rounds of this request begin.
HandleOptimizeLogged ==
    /\ OptimizeMarks
    /\ rounds' = << >>
    /\ UNCHANGED sinceRestart

\* One round of the loop, kept in rounds; a container listed as restarted
\* has no sample since.
OptimizeStepLogged ==
    /\ OptimizeRound
    /\ rounds' = Append(rounds, [ container_name |-> Head(to_restart),
                                  attempted |-> deploy_res'.message # "skipped",
                                  success |-> deploy_res'.success ])
    /\ sinceRestart' =
           IF deploy_res'.success
           THEN [ n \in (DOMAIN sinceRestart) \cup { Head(to_restart) } |->
                    IF n = Head(to_restart) THEN 0 ELSE sinceRestart[n] ]
           ELSE sinceRestart

\* One iteration of the stream loop; a sample pushed into the ring of a
\* container counts for it, up to the 10 that optimizeModelAllocations asks for.
StreamIterationLogged ==
    /\ StreamRecords
    /\ sinceRestart' =
           [ n \in DOMAIN sinceRestart |->
               IF /\ n \in (DOMAIN model_metrics) \cap (DOMAIN model_metrics')
                  /\ model_metrics'[n].vram_samples # model_metrics[n].vram_samples
                  /\ sinceRestart[n] < MIN_OPT_SAMPLES
               THEN sinceRestart[n] + 1
               ELSE sinceRestart[n] ]
    /\ UNCHANGED rounds

NextOptimize ==
    \/ HandleOptimizeLogged
    \/ OptimizeStepLogged
    \/ OptimizeDone
    \/ Respond
    \/ HandleStream
    \/ StreamIterationLogged
    \/ StreamDisconnect

SpecOptimize == InitOptimize /\ [][NextOptimize]_vars

\* ------------------------------------------------------- spindown by target
\* POST /spindown over model ids of which one begins with vllm-, each named
\* by its model id or by the name of its container, over every runtime and
\* registry the two containers can have left.
PrefixedIds == { << "a" >>, VllmPrefix \o << "a" >> }
PrefixedNames == { getContainerName(m) : m \in PrefixedIds }

\* The body of a spindown request: model_id, container_id, either may be
\* left out.
SpindownRequests ==
    { [ model_id |-> m, container_id |-> << >> ] : m \in PrefixedIds }
        \cup { [ model_id |-> << >>, container_id |-> n ] : n \in PrefixedNames }

\* std::string target = model_id.empty() ? container_id : model_id
spindownTarget(request) ==
    IF Len(request.model_id) = 0 THEN request.container_id ELSE request.model_id

InitSpindown ==
    /\ env \in EnvFiles
    /\ config \in { ConfigFile(b) : b \in ConfigBudgets }
    /\ \E states \in [ PrefixedNames -> { "absent", "running", "exited" } ] :
         containers =
             [ n \in PrefixedNames |->
                 IF states[n] = "absent" THEN NoContainer
                 ELSE [ state |-> states[n],
                        port |-> IF StartsWith(NameToModelId(n), VllmPrefix)
                                 THEN DEFAULT_START_PORT + 1 ELSE DEFAULT_START_PORT ] ]
    /\ psOrder \in StartOrders({ n \in PrefixedNames : Exists(containers, n) })
    /\ \E registered \in SUBSET { n \in PrefixedNames : Exists(containers, n) } :
         model_metrics =
             [ n \in registered |->
                 registerModelDeployment(<< >>, n,
                                         getMaxGPUUtilizationFromConfig(config))[n] ]
    /\ pc = "idle"
    /\ to_restart = << >>
    /\ restarted = << >>
    /\ resp = NoResp
    /\ portQuery = NoPortQuery
    /\ portScan = NotCalled
    /\ inRegistry = NoThreadInside
    /\ health = HealthNotStarted
    /\ validate = NotValidating
    /\ inserted = NothingInserted
    /\ deploy_res = NoDeployRes
    /\ rounds = << >>
    /\ sinceRestart = << >>
    /\ env_loaded = TRUE
    /\ env_cache = EnvCacheOf(env)
    /\ inGetEnv = NobodyInGetEnv
    /\ recorded = << >>
    /\ aggregation = NotCollecting
    /\ snapshot = NoSnapshot
    /\ stream = NotStreaming

\* handleSpindownRequest for a request that names its target.
SpindownByTarget ==
    /\ pc = "idle"
    /\ \E request \in SpindownRequests :
         LET out == spindownModel(spindownTarget(request), containers, psOrder, model_metrics)
         IN  /\ resp' = HttpResponse("spindown", request,
                                     IF out.success THEN HTTP_OK ELSE HTTP_INTERNAL_ERROR,
                                     [ success |-> out.success ])
             /\ containers' = out.containers
             /\ psOrder' = out.psOrder
             /\ model_metrics' = out.model_metrics
    /\ pc' = "respond"
    /\ UNCHANGED << sideVars, env, to_restart, restarted >>

NextSpindown ==
    \/ SpindownByTarget
    \/ Respond

SpecSpindown == InitSpindown /\ [][NextSpindown]_vars

\* ------------------------------------------------- getEnvValue, two threads
\* The first getEnvValue calls of the process (utils/env_utils.cpp).  main
\* starts the health thread and enters the accept loop without a call of its
\* own, so the first call of either thread finds env_loaded false.  The
\* statics have no lock: a step is one access to them.
allButEnvCache ==
    << env, config, containers, psOrder, model_metrics, pc, to_restart, restarted, resp,
       portQuery, portScan, inRegistry, health, validate, inserted, telemetryVars,
       optimizeVars >>

\* Where a thread is about to write env_cache.
WritingPcs == { "assign", "insert" }
\* Another thread is about to write env_cache while t reads it.
RacingFind(in_get_env, t) ==
    \E u \in EnvThreads \ { t } : in_get_env[u].pc \in WritingPcs

InitEnv ==
    /\ env \in EnvFiles
    /\ config = NoConfigFile
    /\ containers = [ n \in ContainerNames |-> NoContainer ]
    /\ psOrder = << >>
    /\ model_metrics = << >>
    /\ pc = "idle"
    /\ to_restart = << >>
    /\ restarted = << >>
    /\ resp = NoResp
    /\ portQuery = NoPortQuery
    /\ portScan = NotCalled
    /\ inRegistry = NoThreadInside
    /\ health = HealthNotStarted
    /\ validate = NotValidating
    /\ inserted = NothingInserted
    /\ recorded = << >>
    /\ aggregation = NotCollecting
    /\ snapshot = NoSnapshot
    /\ stream = NotStreaming
    /\ deploy_res = NoDeployRes
    /\ rounds = << >>
    /\ sinceRestart = << >>
    /\ env_loaded = FALSE
    /\ env_cache = EnvCacheEmpty
    /\ inGetEnv = NobodyInGetEnv

\* getEnvValue(key, default_val) is called and tests env_loaded (line 70).
EnvEnter(t) ==
    /\ inGetEnv[t].pc = "outside"
    /\ \E key \in KeysOf(t) :
          inGetEnv' = [ inGetEnv EXCEPT
              ![t] = [ pc    |-> IF env_loaded THEN "getenv" ELSE "assign",
                       key   |-> key,
                       value |-> "none" ] ]
    /\ UNCHANGED << allButEnvCache, env_loaded, env_cache >>

\* env_cache = loadEnvFile(root_env) or loadEnvFile(".env") (lines 72-79).
EnvAssign(t) ==
    /\ inGetEnv[t].pc = "assign"
    /\ env_cache' = [ entries  |-> loadEnvFile(env, RootEnvKeys, "root"),
                      assigned |-> env_cache.assigned + 1 ]
    /\ inGetEnv' = [ inGetEnv EXCEPT ![t].pc = "insert" ]
    /\ UNCHANGED << allButEnvCache, env_loaded >>

\* env_cache.insert of the entries of the home .env (lines 82-87).
EnvInsertHome(t) ==
    /\ inGetEnv[t].pc = "insert"
    /\ env_cache' = [ env_cache EXCEPT
          !.entries = insertHome(@, loadEnvFile(env, HomeEnvKeys, "home")) ]
    /\ inGetEnv' = [ inGetEnv EXCEPT ![t].pc = "mark" ]
    /\ UNCHANGED << allButEnvCache, env_loaded >>

\* env_loaded = true (line 88).
EnvMarkLoaded(t) ==
    /\ inGetEnv[t].pc = "mark"
    /\ env_loaded' = TRUE
    /\ inGetEnv' = [ inGetEnv EXCEPT ![t].pc = "getenv" ]
    /\ UNCHANGED << allButEnvCache, env_cache >>

\* std::getenv(key) (lines 91-94): a key of the process environment is
\* returned without a look at the cache.
EnvGetenv(t) ==
    /\ inGetEnv[t].pc = "getenv"
    /\ \/ inGetEnv' = [ inGetEnv EXCEPT ![t] = [ OutsideGetEnv EXCEPT !.value = "environment" ] ]
       \/ inGetEnv' = [ inGetEnv EXCEPT ![t].pc = "find" ]
    /\ UNCHANGED << allButEnvCache, env_loaded, env_cache >>

\* env_cache.find(key) and the return (lines 96-101).  A find that runs
\* against a write of another thread is a data race on the map: it can
\* return the entry, the default, or anything else.
EnvFind(t) ==
    /\ inGetEnv[t].pc = "find"
    /\ \E value \in IF RacingFind(inGetEnv, t)
                     THEN { env_cache.entries[inGetEnv[t].key], "unset", "undefined" }
                     ELSE { env_cache.entries[inGetEnv[t].key] } :
          inGetEnv' = [ inGetEnv EXCEPT ![t] = [ OutsideGetEnv EXCEPT !.value = value ] ]
    /\ UNCHANGED << allButEnvCache, env_loaded, env_cache >>

NextEnv ==
    \E t \in EnvThreads :
        \/ EnvEnter(t)
        \/ EnvAssign(t)
        \/ EnvInsertHome(t)
        \/ EnvMarkLoaded(t)
        \/ EnvGetenv(t)
        \/ EnvFind(t)

SpecEnv == InitEnv /\ [][NextEnv]_vars

\* ================================================================ properties
\* A step of handleDeployRequest: the accept loop goes from idle to a prepared
\* deploy response.
DeployStep ==
    /\ pc = "idle"
    /\ pc' = "respond"
    /\ resp'.kind = "deploy"

C2_RunningWithinMax ==
    LET running_vllm == { n \in ContainerNames :
                            IsRunning(containers, n) /\ StartsWith(n, VllmPrefix) }
    IN  Cardinality(running_vllm) <= getMaxConcurrentModels(env)

\* C3, as stated: for every set of used ports, port selection returns the
\* requested port when it is > 0 and not in use, and otherwise the smallest
\* port >= START_PORT (default 8000) that no live deployment uses.
C3_SmallestFreePort ==
    portScan.returned =>
        portScan.port =
            IF portQuery.preferred_port > 0
               /\ portQuery.preferred_port \notin portQuery.used_ports
            THEN portQuery.preferred_port
            ELSE LET start_port == startPort(portQuery.start_port_env)
                     used_ports == portQuery.used_ports
                 IN  CHOOSE p \in start_port..(start_port + Cardinality(used_ports)) :
                         /\ p \notin used_ports
                         /\ \A q \in start_port..(p - 1) : q \in used_ports

\* C3, amended: port selection returns the requested port when it is > 0 and
\* not in use; otherwise the smallest port of START_PORT .. START_PORT + 999
\* that is not in use, and START_PORT itself when all 1000 of them are in use.
C3_SmallestFreePortInRange ==
    portScan.returned =>
        portScan.port =
            IF portQuery.preferred_port > 0
               /\ portQuery.preferred_port \notin portQuery.used_ports
            THEN portQuery.preferred_port
            ELSE LET start_port == startPort(portQuery.start_port_env)
                     free == (start_port..(start_port + PORT_SCAN_RANGE - 1))
                                 \ portQuery.used_ports
                 IN  IF free = { } THEN start_port
                     ELSE CHOOSE p \in free : \A q \in free : p <= q

\* The requested port is in use and the scan has returned a free port past
\* START_PORT.
C3_Witness ==
    /\ portScan.returned
    /\ portQuery.preferred_port \in portQuery.used_ports
    /\ portScan.port \notin portQuery.used_ports
    /\ portScan.port > startPort(portQuery.start_port_env)

\* C4: no two live deployments share a host port: the ports listDeployedModels
\* reports for the running vllm- containers are pairwise different.
C4_LivePortsDistinct ==
    LET models == listDeployedModels(containers, psOrder)
    IN  \A i, j \in 1..Len(models) : i # j => models[i].port # models[j].port

\* Two live deployments, both registered.
C4_Witness ==
    /\ Len(listDeployedModels(containers, psOrder)) = 2
    /\ \A n \in ContainerNames : n \in DOMAIN model_metrics

C6_FailedDeployKeepsRegistry ==
    [][ (DeployStep /\ ~resp'.body.success) => model_metrics' = model_metrics ]_vars

\* C7, as stated: POST /deploy always answers 200, and a model_id that is
\* empty or only whitespace is answered 200 with success=false and the
\* message "model_id is required or contains only whitespace".
C7_DeployAlways200 ==
    resp.kind = "deploy" =>
        /\ resp.status = HTTP_OK
        /\ Len(trimWhitespace(resp.request.model_id)) = 0 =>
               /\ ~resp.body.success
               /\ resp.body.message = "model_id is required or contains only whitespace"

\* C7, amended: POST /deploy answers 200 whenever the request reaches
\* deployHFModel, whatever its outcome; a model_id that is empty or only
\* whitespace is answered 400 with success=false and the message "model_id is
\* required or contains only whitespace", and a request with no token, none
\* in the environment either, is answered 400 with success=false.
C7_DeployStatus ==
    [][ DeployStep =>
          LET model_id == trimWhitespace(resp'.request.model_id)
              has_token == resp'.request.hf_token \/ env.HF_TOKEN
          IN  /\ Len(model_id) = 0 =>
                     /\ resp'.status = HTTP_BAD_REQUEST
                     /\ ~resp'.body.success
                     /\ resp'.body.message
                            = "model_id is required or contains only whitespace"
              /\ (Len(model_id) > 0 /\ ~has_token) =>
                     /\ resp'.status = HTTP_BAD_REQUEST
                     /\ ~resp'.body.success
              /\ (Len(model_id) > 0 /\ has_token) => resp'.status = HTTP_OK ]_vars

\* A whitespace-only model_id is about to be answered.
C7_Witness ==
    /\ resp.kind = "deploy"
    /\ Len(resp.request.model_id) > 0
    /\ Len(trimWhitespace(resp.request.model_id)) = 0
    /\ resp.status = HTTP_BAD_REQUEST

\* C8: every read and every mutation of the registry is mutually exclusive
\* with every other: the health thread and the request-handler thread are
\* never inside a model_metrics call at the same time.
C8_RegistryMutualExclusion ==
    Cardinality({ t \in DOMAIN inRegistry : inRegistry[t].fn # "none" }) <= 1

\* C9: a record whose container is not Running does not survive a completed
\* health tick, so the record of a container that stopped running is gone by
\* the end of the next tick.
C9_TickPrunesStale ==
    [][ HealthTick => \A n \in DOMAIN model_metrics' : IsRunning(containers', n) ]_vars

\* A registered container has stopped running and its record is still there
\* for the next tick to meet.
C9_Witness ==
    \E n \in DOMAIN model_metrics :
        /\ containers[n].state = "exited"
        /\ Len(model_metrics[n].vram_samples) > 0

\* C10: on every health tick one VRAM sample is recorded for each registered
\* running deployment, whether or not a /vram/stream client is connected.
C10_TickRecordsSample ==
    [][ HealthTick =>
          \A n \in DOMAIN model_metrics :
              IsRunning(containers, n) =>
                  /\ n \in DOMAIN model_metrics'
                  /\ Len(model_metrics'[n].vram_samples)
                         = Len(model_metrics[n].vram_samples) + 1 ]_vars

\* C11: the health loop never terminates: however a tick ends, with a failed
\* list, a failed probe or an exception of any kind it can raise, the thread
\* is not ended and a further tick follows.
C11_HealthLoopGoesOn ==
    /\ [](health.pc # "terminated")
    /\ (health.pc = "sleeping") ~> (health.pc = "checking")

\* A further tick is under way after a tick that threw.
C11_Witness ==
    /\ health.pc = "checking"
    /\ health.last \in TickExceptions

\* C12: each accepted connection has a handler task of its own: while a
\* /vram/stream subscriber is connected, or the re-deploys of an optimize are
\* in progress, the accept loop can still take a new request (so that it is
\* answered, and several subscribers are served at once).
C12_AcceptsWhileHandling ==
    pc \in { "stream", "optimize" } => ENABLED AcceptRequest

\* A step of handleOptimizeRequest up to its loop: the accept loop goes from
\* idle into the loop over the marked containers, or to the prepared answer
\* that nothing was marked.
OptimizeRequestStep ==
    /\ pc = "idle"
    /\ \/ pc' = "optimize"
       \/ pc' = "respond" /\ resp'.kind = "optimize"

\* C13: Optimize marks a record for restart if and only if its ring holds at
\* least 10 samples, the arithmetic mean of the ring is strictly below
\* configured_budget x 100 x 0.7 and its peak is > 0; a record with fewer than
\* 10 samples is never marked.
C13_MarkedIffUnderused ==
    [][ OptimizeRequestStep =>
          \A n \in DOMAIN model_metrics' :
              LET ring == model_metrics'[n].vram_samples
                  budget == model_metrics'[n].configured_max_utilization
                  marked == /\ pc' = "optimize"
                            /\ \E i \in 1..Len(to_restart') : to_restart'[i] = n
              IN  /\ marked <=> ( /\ Len(ring) >= 10
                                  /\ 10 * Sum(ring) < 7 * budget * Len(ring)
                                  /\ model_metrics'[n].peak_usage > 0 )
                  /\ Len(ring) < 10 => ~marked ]_vars

\* A record with exactly 10 samples has been marked.
C13_Witness ==
    /\ pc = "optimize"
    /\ Len(to_restart) > 0
    /\ Head(to_restart) \in DOMAIN model_metrics
    /\ Len(model_metrics[Head(to_restart)].vram_samples) = 10

\* C14: for each container Optimize restarts, the gpu-memory-utilization of
\* the re-deploy, which the new record keeps as its budget, is the recorded
\* peak of that deployment divided by 100 and clamped to [0.1, 0.95] (a ring
\* of samples of 30.0 gives 0.30).
C14_RedeployBudgetIsClampedPeak ==
    [][ (OptimizeStep /\ Head(to_restart) \in DOMAIN model_metrics) =>
          LET recorded_peak == model_metrics[Head(to_restart)].peak_usage
              expected == IF recorded_peak < 10 THEN 10
                          ELSE IF recorded_peak > 95 THEN 95
                          ELSE recorded_peak
          IN  \A m \in DOMAIN model_metrics' :
                  (m \notin DOMAIN model_metrics \/ model_metrics'[m] # model_metrics[m])
                      => model_metrics'[m].configured_max_utilization = expected ]_vars

\* C15: for each marked container, the model id Optimize reads back for the
\* live deployment is the canonical id it was deployed with, and a re-deploy
\* that Optimize counts as restarted has left a running container of the
\* same name as the one that was stopped.
C15_RedeploysCanonicalId ==
    [][ OptimizeStep =>
          LET n == Head(to_restart)
              models == listDeployedModels(containers, psOrder)
          IN  /\ \A i \in 1..Len(models) :
                     models[i].container_name = n =>
                         /\ models[i].model_id \in CanonicalIds
                         /\ getContainerName(models[i].model_id) = n
              /\ Len(restarted') > Len(restarted) => IsRunning(containers', n) ]_vars

\* C16: in every reachable state the configured budget of every registry
\* record lies in (0, 0.95], for the records of a normal deploy (the value of
\* the config file, default 0.95) as for those of an optimize re-deploy.
C16_BudgetInRange ==
    \A n \in DOMAIN model_metrics :
        /\ model_metrics[n].configured_max_utilization > 0
        /\ model_metrics[n].configured_max_utilization <= 95

\* C17: validateHFModel recurses at most once: when the validation of a
\* search hit does not find the model either, also when the search returned
\* the very id that was queried, it returns valid=false and does not search
\* again, so the call terminates.
C17_RecursesAtMostOnce ==
    /\ validate.pc # "none" => validate.depth <= 1
    /\ (validate.pc = "search" /\ validate.depth = 1) =>
           ~ENABLED ValidateSearch

\* A step of handleSpindownRequest: the accept loop goes from idle to a
\* prepared spindown response.
SpindownStep ==
    /\ pc = "idle"
    /\ pc' = "respond"
    /\ resp'.kind = "spindown"

\* C18: a spindown of a target (a model id or a container name) removes the
\* record of the normalized container name and issues stop and rm on that
\* container; it succeeds if and only if at least one of the two runtime
\* calls succeeded, and the handler answers 200 on success and 500 on failure.
C18_SpindownOutcome ==
    [][ (SpindownStep /\ Len(resp'.request) > 0) =>
          LET target == resp'.request
              name == IF StartsWith(target, VllmPrefix) THEN target
                      ELSE VllmPrefix \o [ i \in 1..Len(target) |->
                                             IF target[i] \in Alnum THEN target[i] ELSE "-" ]
              stopped == AfterStop(containers, name)
              one_succeeded == StopOk(containers, name) \/ RmOk(stopped, name)
          IN  /\ name \notin DOMAIN model_metrics'
              /\ \A m \in DOMAIN model_metrics \ { name } :
                     m \in DOMAIN model_metrics' /\ model_metrics'[m] = model_metrics[m]
              /\ containers' = AfterRm(stopped, name)
              /\ resp'.body.success <=> one_succeeded
              /\ resp'.status = IF one_succeeded THEN HTTP_OK ELSE HTTP_INTERNAL_ERROR ]_vars

\* A spindown that named a model id is about to be answered 200: the
\* container of that model is gone from the runtime and from the registry,
\* while the other deployment is still registered.
C18_Witness ==
    /\ resp.kind = "spindown"
    /\ resp.status = HTTP_OK
    /\ resp.request \in CanonicalIds
    /\ ~Exists(containers, ContainerNameOf[resp.request])
    /\ ContainerNameOf[resp.request] \notin DOMAIN model_metrics
    /\ DOMAIN model_metrics # { }

\* The step calls unregisterModel(n): a spindown request whose target
\* normalizes to n, or the spindown of the marked container n in the loop of
\* handleOptimizeRequest.
UnregisterStep(n) ==
    \/ /\ SpindownStep
       /\ Len(resp'.request) > 0
       /\ n = (IF StartsWith(resp'.request, VllmPrefix) THEN resp'.request
               ELSE getContainerName(resp'.request))
    \/ /\ OptimizeStep
       /\ Head(to_restart) = n

\* The step calls cleanupStaleModelMetrics: a health tick, an iteration of
\* the stream loop that records samples, or the head of an optimize request.
PruneStep ==
    \/ HealthTick
    \/ StreamIteration
    \/ OptimizeRequestStep

\* C19, as stated: a registered record stays in the registry as long as no
\* unregisterModel of its container name intervenes, whatever else runs
\* (sample recording, health ticks, other registrations): a step that is not
\* an unregister of the name does not remove the record of that name.
C19_RegisteredUntilUnregistered ==
    [][ \A n \in DOMAIN model_metrics :
            n \notin DOMAIN model_metrics' => UnregisterStep(n) ]_vars

\* C19, amended: a registered record stays in the registry as long as
\* neither an unregisterModel of its container name intervenes nor a prune
\* (health tick, sample recording, optimize) whose listing of the running
\* containers does not hold the name.
C19_RegisteredUntilUnregisteredOrPruned ==
    [][ \A n \in DOMAIN model_metrics :
            n \notin DOMAIN model_metrics' =>
                \/ UnregisterStep(n)
                \/ /\ PruneStep
                   /\ n \notin runningContainerNames(containers, psOrder) ]_vars

\* A record that has taken samples is still registered, its container
\* running, after a second deployment was registered.
C19_Witness ==
    \E n \in DOMAIN model_metrics :
        /\ Len(model_metrics[n].vram_samples) > 0
        /\ IsRunning(containers, n)
        /\ \E m \in DOMAIN model_metrics :
               m # n /\ Len(model_metrics[m].vram_samples) < Len(model_metrics[n].vram_samples)

\* C20: for every record and every sample ever pushed into its ring, also a
\* sample the ring has dropped since, the peak of the record is >= the sample
\* in every state after the push.
C20_PeakCoversEverySample ==
    \A s \in inserted :
        /\ RingContainer \in DOMAIN model_metrics
        /\ model_metrics[RingContainer].peak_usage >= s

\* The ring is full and has dropped the spike it once took.
C20_Witness ==
    /\ RingContainer \in DOMAIN model_metrics
    /\ Len(model_metrics[RingContainer].vram_samples) = MAX_SAMPLES
    /\ \E s \in inserted :
           \A i \in 1..MAX_SAMPLES : model_metrics[RingContainer].vram_samples[i] < s

\* C21: immediately after a prune over the running set R, every record of
\* the registry has a name that belongs to R, and every record whose name is
\* in R is kept as it was.
C21_PrunePostcondition ==
    [][ (HealthTick \/ OptimizeRequestStep) =>
          LET R == runningContainerNames(containers, psOrder)
          IN  /\ \A n \in DOMAIN model_metrics' : n \in R
              /\ \A n \in DOMAIN model_metrics :
                     n \in R => /\ n \in DOMAIN model_metrics'
                                /\ model_metrics'[n] = model_metrics[n] ]_vars

\* The registry a prune is about to meet holds a record with samples whose
\* container runs and a record whose container does not.
C21_Witness ==
    \E n, m \in DOMAIN model_metrics :
        /\ IsRunning(containers, n)
        /\ Len(model_metrics[n].vram_samples) > 0
        /\ ~IsRunning(containers, m)

\* C22: GET /vram/aggregated clamps the window to [1, 60] seconds, 5 when the
\* target names none and 1 for window=0; the collection always ends, with
\* 1 <= sample_count <= 100, either because the window has elapsed or because
\* 100 samples were taken.
C22_WindowClampedCollectEnds ==
    /\ [] ( aggregation.pc # "none" =>
              /\ aggregation.window_seconds \in MIN_WINDOW..MAX_WINDOW
              /\ aggregation.target = TargetNoQuery => aggregation.window_seconds = DEFAULT_WINDOW
              /\ aggregation.target = TargetWindowZero => aggregation.window_seconds = 1 )
    /\ [] ( aggregation.pc = "done" =>
              /\ aggregation.sample_count \in 1..max_samples
              /\ \/ aggregation.now >= aggregation.end_time
                 \/ aggregation.sample_count = max_samples )
    /\ ( (aggregation.pc = "loop") ~> (aggregation.pc = "done") )

\* A collection over the longest window has ended on its 100th sample, the
\* window not yet elapsed.
C22_Witness ==
    /\ aggregation.pc = "done"
    /\ aggregation.window_seconds = MAX_WINDOW
    /\ aggregation.sample_count = max_samples
    /\ aggregation.now < aggregation.end_time

\* C23: in every telemetry snapshot every per-model entry has
\* used_kv_cache_bytes <= allocated_vram_bytes, also for a model no GPU
\* process was matched to and after the unmatched memory was distributed.
C23_UsedKvWithinAllocated ==
    snapshot.pc = "done" =>
        \A i \in 1..Len(snapshot.models) :
            snapshot.models[i].used_kv_cache_bytes <= snapshot.models[i].allocated_vram_bytes

\* C24: the AggregatedStats computed from a sample sequence S has
\* count = |S|; when |S| >= 1 it has min <= avg <= max and p95 <= p99; for
\* empty S all its fields are zero.
C24_StatsOrdered ==
    aggregation.pc = "stats" =>
        LET S == aggregation.values
            stats == aggregation.stats
        IN  /\ stats.count = Len(S)
            /\ Len(S) >= 1 => /\ stats.min <= stats.avg
                               /\ stats.avg <= stats.max
                               /\ stats.p95 <= stats.p99
            /\ Len(S) = 0 => stats = AggregatedStats(0, 0, 0, 0, 0, 0)

\* C25: the percentile of a sorted sequence S of length >= 1 lies in
\* [min(S), max(S)], is min(S) for p = 0 and max(S) for p = 1, and for
\* S = 1..10 it is 9.55 for p = 0.95 and 9.91 for p = 0.99, to the two
\* decimals the response prints.
C25_PercentileInterpolates ==
    aggregation.pc = "percentile" =>
        LET S == aggregation.values
            p == aggregation.percentile
            result == aggregation.result
        IN  /\ S[1] <= result
            /\ result <= S[Len(S)]
            /\ p = 0 => result = S[1]
            /\ p = DoubleOne => result = S[Len(S)]
            /\ (S = OneToTen /\ p = P95) =>
                   /\ 200 * result >= 1909 * DoubleOne
                   /\ 200 * result < 1911 * DoubleOne
            /\ (S = OneToTen /\ p = P99) =>
                   /\ 200 * result >= 1981 * DoubleOne
                   /\ 200 * result < 1983 * DoubleOne

\* The derived name is the one value the derivation has for the id, begins
\* with "vllm-" and holds only letters, digits and "-".
NameWellFormed ==
    validate.pc \in { "named", "renamed" } =>
        /\ validate.container_name = getContainerName(validate.model_id)
        /\ StartsWith(validate.container_name, VllmPrefix)
        /\ \A i \in 1..Len(validate.container_name) :
               validate.container_name[i] \in Alnum \cup { "-" }

\* C26, as stated: for all model ids m, container_name(m) is idempotent
\* (the name of a name is that name), deterministic, holds only characters
\* of [A-Za-z0-9-] and begins with "vllm-".
C26_NameIdempotent ==
    /\ NameWellFormed
    /\ validate.pc = "renamed" => validate.of_name = validate.container_name

\* C26, amended: container_name(m) is deterministic, holds only characters
\* of [A-Za-z0-9-] and begins with "vllm-"; the name of a name is one prefix
\* longer than the name, and the name of the id read back from a name (the
\* name without its prefix) is the name again.
C26_NameOfReadBackId ==
    /\ NameWellFormed
    /\ validate.pc = "renamed" =>
           /\ validate.of_name = VllmPrefix \o validate.container_name
           /\ validate.of_read_back = validate.container_name

\* The name of an id with a character that is replaced was derived, and then
\* the name of that name.
C26_Witness ==
    /\ validate.pc = "renamed"
    /\ \E i \in 1..Len(validate.model_id) : validate.model_id[i] \notin Alnum \cup { "-" }
    /\ validate.of_name # validate.container_name

\* C27: a /vram/stream handler emits one event per iteration; its loop ends
\* when the peer disconnects (pipe, reset, eof or end-of-stream error on the
\* write) and on any other error as well; no error leaves the handler, and
\* the accept loop goes on to the next connection.
C27_StreamEndsInsideHandler ==
    /\ stream.pc = "loop" => /\ stream.error = NoException
                              /\ stream.events = stream.iteration
    /\ stream.error # NoException =>
           /\ stream.pc \in { "returned", "accepting" }
           /\ stream.events <= stream.iteration
           /\ stream.iteration <= stream.events + 1
    /\ ~stream.escaped
    /\ stream.pc # "stopped"
    /\ stream.pc = "returned" => ENABLED StreamServeNext
    /\ stream.pc = "accepting" => ENABLED StreamAccept

\* After events were written a probe threw something that is no
\* std::exception; the handler has returned and the accept loop is back at
\* accept.
C27_Witness ==
    /\ stream.pc = "accepting"
    /\ stream.error = NonStdException
    /\ stream.events >= 1

\* C28: the ring of a record holds at most 100 samples; a sample recorded
\* into a full ring evicts exactly the oldest one, so the ring is always the
\* most recent min(k, 100) of the k samples recorded since the registration,
\* in the order they were recorded.
C28_RingIsRecentSamples ==
    /\ RingContainer \in DOMAIN model_metrics
    /\ LET ring == model_metrics[RingContainer].vram_samples
           k    == Len(recorded)
       IN  /\ Len(ring) <= MAX_SAMPLES
           /\ Len(ring) = (IF k < MAX_SAMPLES THEN k ELSE MAX_SAMPLES)
           /\ ring = SubSeq(recorded, k - Len(ring) + 1, k)

\* More than 100 samples were recorded and the oldest sample of the ring is
\* the spike, which was not the first sample recorded.
C28_Witness ==
    /\ Len(recorded) > MAX_SAMPLES
    /\ model_metrics[RingContainer].vram_samples[1] \in RingSpike
    /\ recorded[1] \notin RingSpike

\* C29: recording a sample for a container name that has no record stores
\* nothing and creates no record for that name: after the call the registry
\* still has no record for it.
C29_NoRecordForUnregistered ==
    /\ IsRunning(containers, RingOther)
    /\ RingOther \notin DOMAIN model_metrics
    /\ DOMAIN model_metrics = { RingContainer }

\* Samples were recorded, each in an iteration that also recorded for the
\* running container without a record, which still has none.
C29_Witness ==
    /\ Len(recorded) >= 2
    /\ IsRunning(containers, RingOther)
    /\ RingOther \notin DOMAIN model_metrics

\* C30: every sample in the ring of a record was recorded after the most
\* recent registration of its name: a registration that replaces a record
\* starts with an empty ring and peak 0, so neither samples nor the peak of
\* the previous deployment carry over.
C30_NothingCarriesOver ==
    /\ RingContainer \in DOMAIN model_metrics
    /\ LET metrics == model_metrics[RingContainer]
           since   == { recorded[j] : j \in 1..Len(recorded) }
       IN  /\ Len(metrics.vram_samples) <= Len(recorded)
           /\ \A i \in 1..Len(metrics.vram_samples) : metrics.vram_samples[i] \in since
           /\ metrics.peak_usage \in since \cup { 0 }
           /\ recorded = << >> => metrics.peak_usage = 0

\* A deploy that replaced a record with samples was answered, base samples
\* were recorded since, and the peak is theirs.
C30_Witness ==
    /\ resp # NoResp
    /\ Len(recorded) > 0
    /\ model_metrics[RingContainer].peak_usage \in RingBase

\* The container name deployHFModel derives for the request a deploy step
\* has answered; the empty name for a request without a model id.
DeployTarget(request) ==
    IF Len(Trimmed[request.model_id]) = 0 THEN << >>
    ELSE ContainerNameOf[Trimmed[request.model_id]]

\* The messages of a deploy that went through the replace step and found a
\* container id after docker run.
StartedMessages ==
    { "Model deployed successfully", "Container started",
      "Container created but failed to start" }

\* C31: after every deploy, also a repeated deploy of the same model, the
\* runtime lists at most one container per name and the registry holds at
\* most one record per name; a deploy that reaches the replace step while a
\* container of its name exists has stopped and removed that container
\* before it started the new one, so the container of that name after the
\* step is the newest one and publishes the port this deploy was given.
C31_DeployReplacesExisting ==
    [][ (DeployStep /\ resp'.body.message \in StartedMessages) =>
          LET n == DeployTarget(resp'.request)
          IN  /\ \A i, j \in 1..Len(psOrder') : psOrder'[i] = psOrder'[j] => i = j
              /\ Exists(containers, n) =>
                     /\ Exists(containers', n)
                     /\ psOrder'[1] = n
                     /\ containers'[n].port = resp'.body.port ]_vars

\* C32: the replace step of a deploy stops and removes only the container
\* whose name is exactly the container name of the model: every container of
\* another name that was running before the deploy step, also one whose name
\* contains that name, is running after it.
C32_ReplaceOnlyExactName ==
    [][ DeployStep =>
          \A m \in ContainerNames :
              (m # DeployTarget(resp'.request) /\ IsRunning(containers, m))
                  => IsRunning(containers', m) ]_vars

\* The container names of the rounds whose re-deploy answered success=true,
\* in the order of the rounds.
SuccessfulRounds ==
    LET won == SelectSeq(rounds, LAMBDA r : r.success)
    IN  [ i \in 1..Len(won) |-> won[i].container_name ]

\* C33: the restarted_models list of an optimize response holds exactly the
\* marked containers whose re-deploy answered success=true, in the order in
\* which they were marked (the key order of the registry, in which the loop
\* goes through them); a marked container whose re-deploy failed or was
\* skipped is not listed.  The list the loop builds is that list at every
\* round.
C33_RestartedAreSuccessfulRedeploys ==
    /\ pc = "optimize" => restarted = SuccessfulRounds
    /\ (resp.kind = "optimize" /\ resp.body.optimized) =>
           /\ resp.body.restarted_models = SuccessfulRounds
           /\ LET names == [ i \in 1..Len(rounds) |-> rounds[i].container_name ]
              IN  names = InKeyOrder({ names[i] : i \in 1..Len(names) })

\* An optimize answers with two marked containers behind it, the first
\* re-deploy failed, the second succeeded.
C33_Witness ==
    /\ resp.kind = "optimize"
    /\ Len(rounds) = 2
    /\ rounds[1].attempted /\ ~rounds[1].success
    /\ rounds[2].success
    /\ resp.body.restarted_models = << rounds[2].container_name >>

\* C34: optimize has no rollback: a marked container is spun down before
\* its re-deploy is attempted, the re-deploy asks for port 8000, and when
\* the re-deploy fails the model is not running and has no registry record
\* when the optimize request is answered.
C34_FailedRedeployStaysDown ==
    (resp.kind = "optimize" /\ resp.body.optimized) =>
        \A i \in 1..Len(rounds) :
            (rounds[i].attempted /\ ~rounds[i].success) =>
                /\ ~IsRunning(containers, rounds[i].container_name)
                /\ rounds[i].container_name \notin DOMAIN model_metrics

\* C38: an optimize request that follows an optimize which listed container
\* n as restarted marks n only when at least 10 samples were recorded for n
\* in between: with fewer, n is not in the list the loop will go through.
C38_NoRestartBeforeTenSamples ==
    [][ (OptimizeRequestStep /\ pc' = "optimize") =>
          \A i \in 1..Len(to_restart') :
              to_restart'[i] \in DOMAIN sinceRestart =>
                  sinceRestart[to_restart'[i]] >= MIN_OPT_SAMPLES ]_vars

\* A second optimize request was answered with nothing restarted while a
\* container the first one restarted has a record holding the 1 to 9
\* samples recorded since.
C38_Witness ==
    /\ resp.kind = "optimize"
    /\ rounds = << >>
    /\ \E n \in DOMAIN sinceRestart :
           /\ sinceRestart[n] \in 1..(MIN_OPT_SAMPLES - 1)
           /\ n \in DOMAIN model_metrics
           /\ Len(model_metrics[n].vram_samples) = sinceRestart[n]

\* C35: for every model id m, also one that begins with vllm-, a spindown
\* that names m by model_id does what a spindown of the container name of m
\* does: it acts on the container and the record named
\* getContainerName(m), leaves the same runtime and registry and answers
\* the same.
C35_SpindownByIdOrByName ==
    [][ (SpindownStep /\ Len(resp'.request.model_id) > 0) =>
          LET m == resp'.request.model_id
              by_name == spindownModel(getContainerName(m), containers, psOrder, model_metrics)
          IN  /\ by_name.container_name = getContainerName(m)
              /\ containers' = by_name.containers
              /\ psOrder' = by_name.psOrder
              /\ model_metrics' = by_name.model_metrics
              /\ resp'.body.success = by_name.success ]_vars

\* C37: pruning removes a record only when the runtime reported its
\* container as not running: a tick whose list query failed or timed out
\* leaves every record in place, and no tick removes the record of a
\* container that is running.
C37_PruneKeepsRunning ==
    [][ (health.pc = "checking" /\ health'.pc = "sleeping") =>
          /\ health'.last = "list failed" => model_metrics' = model_metrics
          /\ \A n \in DOMAIN model_metrics :
                 IsRunning(containers, n) => n \in DOMAIN model_metrics' ]_vars

\* C36: the env cache is populated exactly once and is read-only afterwards:
\* env_cache is assigned at most once, it does not change once env_loaded is
\* set, and no thread runs env_cache.find while another thread is about to
\* write the map.
C36_EnvCachePopulatedOnce ==
    [][ /\ env_cache'.assigned <= 1
        /\ env_loaded => env_cache' = env_cache
        /\ \A t \in EnvThreads :
              (inGetEnv[t].pc = "find" /\ inGetEnv'[t].pc = "outside")
                  => ~RacingFind(inGetEnv, t) ]_vars

====
